---- MODULE Spec2Model ----
(***************************************************************************)
(* A model of giant-squid, the MWA ASVO client: the per-job download       *)
(* (AsvoClient::download with its retry controller and the transfer        *)
(* engine AsvoClient::try_download), the download command's worker pool    *)
(* (main, Args::Download), the poll loop (wait_loop), the submit command   *)
(* with the interpreter of the submission response, the download by obsid, *)
(* the cancel command and the classification of a command-line argument.   *)
(*                                                                         *)
(*   Spec          one job's download, file by file, attempt by attempt    *)
(*   SpecXfer      the transfer engine invoked repeatedly on one file      *)
(*   SpecOrch      the download command: a bounded pool of job downloads   *)
(*   SpecWait      wait_loop polling the job catalog                       *)
(*   SpecWaitLive  wait_loop with no bound on its cycles, scheduled fairly *)
(*   SpecWaitRaw   wait_loop over the job_state strings the service sends  *)
(*   SpecSubmit    the submit command: a batch of obsids, one by one, and  *)
(*                 with --wait its wait_loop                               *)
(*   SpecPick      download_obsid: the job of an obsid, then its download  *)
(*   SpecCancel    the cancel command: a batch of job ids, one by one      *)
(*   SpecArg       parse_jobid_or_obsid on one argument                    *)
(***************************************************************************)
EXTENDS Integers, Sequences, FiniteSets, TLC

(***************************************************************************)
(* Bounds of the model.                                                    *)
(***************************************************************************)
\* Declared size, in bytes, of every file of a manifest.
FileSize == 2
\* Longest manifest.
MaxFiles == 2
\* Backoff cycles the retry budget of one file allows.
MaxRetries == 1
\* Whole seconds after which the elapsed-time counter saturates.
MaxSecs == 1
\* Times the transfer engine is invoked on the same file in a row.
MaxCalls == 3
\* Most ids on the command line of the download command.
MaxArgs == 3
\* Largest value of --concurrent-downloads, and the cores of the machine.
MaxThreads == 2
NumCpus == 2
\* Job ids a wait is asked about, and catalog fetches of one wait.
MaxWaitJobs == 2
MaxFetches == 3
\* Obsids given to one submit command.
MaxObsids == 3
\* Jobs in the job list of a download by obsid.
MaxListed == 2
\* Arguments of one cancel command.
MaxCancel == 3
\* Largest multiple of 2^32 in an integer argument.
MaxHigh == 3

(***************************************************************************)
(* Bytes, files and hashes.                                                *)
(***************************************************************************)
\* Byte values of file contents are 1 and 2; an error document (the body of
\* a 4xx response) is one byte 3, which is no valid start of an archive.
ErrDoc == <<3>>

Min(a, b) == IF a < b THEN a ELSE b
Max(a, b) == IF a > b THEN a ELSE b

\* The bytes the archive has for the file behind url u.
Content(u) == [i \in 1..FileSize |-> ((i + u) % 2) + 1]

Prefix(s, k) == SubSeq(s, 1, Min(k, Len(s)))

\* s with its last byte changed (same length, different content).
Corrupt(s) ==
    IF s = <<>> THEN s
    ELSE [s EXCEPT ![Len(s)] = IF s[Len(s)] = 1 THEN 2 ELSE 1]

\* A file of the local filesystem: absent, or present with its bytes.
NoFile == [exists |-> FALSE, data |-> <<>>]
FileOf(bytes) == [exists |-> TRUE, data |-> bytes]

\* SHA-1 as an injective function of the byte sequence (no collisions among
\* the sequences of the model): a positional encoding in base 4.
RECURSIVE Sha1(_)
Sha1(s) == IF s = <<>> THEN 1 ELSE 4 * Sha1(SubSeq(s, 1, Len(s) - 1)) + s[Len(s)]

\* A hex string: its digits, and whether its letters are upper case.
\* format!("{:x}", ..) prints lower case.
FormatHex(digest) == [some |-> TRUE, digits |-> digest, upper |-> FALSE]
NoHash == [some |-> FALSE, digits |-> 0, upper |-> FALSE]
ToAsciiLowercase(h) == [h EXCEPT !.upper = FALSE]

eq_ignore_ascii_case(a, b) == ToAsciiLowercase(a) = ToAsciiLowercase(b)

(***************************************************************************)
(* Results and errors (AsvoError).  cause tells what went wrong in the     *)
(* world; type is the variant the code builds.                             *)
(***************************************************************************)
NoResult == [type |-> "none"]
Ok == [type |-> "Ok"]
Panic == [type |-> "panic"]
\* The process is aborted (handle_alloc_error): nothing returns or unwinds.
Abort == [type |-> "abort"]
ErrIO(cause) == [type |-> "IO", cause |-> cause]
ErrReqwest == [type |-> "Reqwest", cause |-> "network"]
ErrHashMismatch(jobid, file, calculated, expected) ==
    [type |-> "HashMismatch", cause |-> "data", jobid |-> jobid, file |-> file,
     calculated_hash |-> calculated, expected_hash |-> expected]
ErrNotReady(jobid, state) == [type |-> "NotReady", jobid |-> jobid, state |-> state]
ErrNoFiles(jobid) == [type |-> "NoFiles", jobid |-> jobid]
ErrNoUrl(jobid) == [type |-> "NoUrl", job_id |-> jobid]
ErrNoPath(jobid) == [type |-> "NoPath", job_id |-> jobid]

IsErr(r) == r.type \notin {"none", "Ok", "panic", "abort"}

\* check_file_sha1_hash: hash the whole file, compare ignoring case.
check_file_sha1_hash(bytes, expected_hash) ==
    eq_ignore_ascii_case(FormatHex(Sha1(bytes)), expected_hash)

(***************************************************************************)
(* The file server and the faults of one transfer attempt.                 *)
(***************************************************************************)
\* What the server answers to a file request.  first is the first byte the
\* Range header asks for, or -1 when the request has no Range header.
\*   full     200, the whole object (the Range header is ignored)
\*   range    206, the bytes from first on; 416 and an error document when
\*            first is not inside the object
\*   denied   403 and an error document (the signed URL has expired)
\*   corrupt  200, an object of the right size and the wrong content
ServerKinds == {"full", "range", "denied", "corrupt"}

ServerResponse(kind, u, first) ==
    CASE kind = "full" -> [status |-> 200, body |-> Content(u)]
      [] kind = "range" ->
            IF first < 0 THEN [status |-> 200, body |-> Content(u)]
            ELSE IF first < FileSize
                 THEN [status |-> 206, body |-> SubSeq(Content(u), first + 1, FileSize)]
                 ELSE [status |-> 416, body |-> ErrDoc]
      [] kind = "denied" -> [status |-> 403, body |-> ErrDoc]
      [] kind = "corrupt" -> [status |-> 200, body |-> Corrupt(Content(u))]

\* What happens to one attempt besides the server's answer:
\*   send     the request fails (no response): a reqwest error
\*   open     opening, creating or examining the local file fails
\*   netread  reading the response body fails after at bytes
\*   write    writing to the local file fails after at bytes
\*   marker   reading the response fails behind the data of the archive's
\*            entry, in the padding or the end-of-archive marker that the
\*            archive decoder reads before it reports the end of the entries
\*   check    the local file opens for the transfer, and opening or reading
\*            it for the hash check (check_file_sha1_hash) fails
NoFault == [kind |-> "none", at |-> 0]
Faults ==
    {NoFault, [kind |-> "send", at |-> 0], [kind |-> "open", at |-> 0],
     [kind |-> "marker", at |-> 0], [kind |-> "check", at |-> 0]}
    \cup [kind : {"netread", "write"}, at : 0..(FileSize - 1)]

\* The worlds one attempt can meet.
Worlds == [server : ServerKinds, fault : Faults]

\* Bytes of the response that are read before the read fails, when it does:
\* the marker lies behind the data, before the last byte.
ReadFails(w) == w.fault.kind \in {"netread", "marker"}
ReadFailsAt(w, body) == IF w.fault.kind = "marker" THEN Len(body) - 1 ELSE w.fault.at

(***************************************************************************)
(* Machine integers.  A number is held as mant * 2^exp with the length of  *)
(* its binary numeral, so that the sizes of the buffer, which reach 2^64,  *)
(* are computed with small integers.                                       *)
(***************************************************************************)
RECURSIVE BitLen(_)
BitLen(m) == IF m = 0 THEN 0 ELSE 1 + BitLen(m \div 2)

Num(m, e) == [mant |-> m, exp |-> e, bits |-> IF m = 0 THEN 0 ELSE BitLen(m) + e]
Zero == Num(0, 0)
IsZero(n) == n.bits = 0

\* n < 2^bits.
Below(n, bits) == n.bits <= bits

\* n modulo 2^bits.
Wrap(n, bits) ==
    IF Below(n, bits) THEN n
    ELSE IF n.exp >= bits THEN Zero
    ELSE Num(n.mant % (2 ^ (bits - n.exp)), n.exp)

\* usize and isize of the machine.
WordBits == 64
FitsUsize(n) == Below(n, WordBits)
FitsIsize(n) == Below(n, WordBits - 1)

\* n * 1024 in usize: with overflow checks (a debug build) a product that
\* does not fit panics, without them (a release build) it wraps.
Mul1024(n, overflow_checks) ==
    LET product == [mant |-> n.mant, exp |-> n.exp + 10, bits |-> n.bits + 10]
    IN  IF IsZero(n) THEN [panics |-> FALSE, n |-> Zero]
        ELSE IF FitsUsize(product) THEN [panics |-> FALSE, n |-> product]
        ELSE IF overflow_checks THEN [panics |-> TRUE, n |-> Zero]
        ELSE [panics |-> FALSE, n |-> Wrap(product, WordBits)]

(***************************************************************************)
(* The environment variable GIANT_SQUID_BUF_SIZE: not set, a text that is  *)
(* no decimal number, or a decimal number: zero, 5 MiB, 102400 MiB (as     *)
(* many bytes as a large machine supplies and a small one does not), 2^43  *)
(* MiB (2^63 bytes, more than a buffer may have), 2^44 MiB (2^64 bytes,    *)
(* more than usize holds) and 2^64 (no usize).                             *)
(***************************************************************************)
BufSizes ==
    {"unset", "abc", "0", "5", "102400", "8796093022208", "17592186044416",
     "18446744073709551616"}

\* The number a decimal numeral of the model denotes.
Decimal(s) ==
    CASE s = "0" -> Zero
      [] s = "5" -> Num(5, 0)
      [] s = "102400" -> Num(25, 12)
      [] s = "8796093022208" -> Num(1, 43)
      [] s = "17592186044416" -> Num(1, 44)
      [] s = "18446744073709551616" -> Num(1, 64)

\* str::parse::<usize>: the number of a decimal numeral that fits usize.
parse(s) ==
    IF s = "abc" THEN [ok |-> FALSE, n |-> Zero]
    ELSE [ok |-> FitsUsize(Decimal(s)), n |-> Decimal(s)]

\* Line 366: 100 MiB by default.
DefaultMiB == Num(100, 0)

\* Lines 364-368: the in-memory buffer in bytes.  s.parse()? fails on a value
\* that is no number of usize; the number of MiB is multiplied by 1024
\* twice.
buffer_size(env, overflow_checks) ==
    LET mib == IF env = "unset" THEN [ok |-> TRUE, n |-> DefaultMiB] ELSE parse(env)
        kib == Mul1024(mib.n, overflow_checks)
        bytes == Mul1024(kib.n, overflow_checks)
    IN  IF ~mib.ok THEN [res |-> "parse", bytes |-> Zero]
        ELSE IF kib.panics \/ bytes.panics THEN [res |-> "panic", bytes |-> Zero]
        ELSE [res |-> "ok", bytes |-> bytes.n]

\* The machines of the model: the allocator of the one supplies a block of
\* less than 2^36 bytes (64 GiB), that of the other one of less than 2^48.
MemoryBits == {36, 48}

\* Lines 495, 560: BufReader::with_capacity(buffer_size, ..): a buffer of no
\* bytes is not allocated; one of more than isize::MAX bytes panics
\* ("capacity overflow"); when the machine cannot supply the memory the
\* process is aborted.  The value tells how the call ends and whether the
\* reader it gives has a buffer of no bytes.
with_capacity(capacity, memory_bits) ==
    [res |-> IF IsZero(capacity) THEN Ok
             ELSE IF ~FitsIsize(capacity) THEN Panic
             ELSE IF ~Below(capacity, memory_bits) THEN Abort
             ELSE Ok,
     empty |-> IsZero(capacity)]

(***************************************************************************)
(* AsvoClient::try_download: one transfer attempt for one manifest entry.  *)
(* file is the destination file (out_path) before the attempt, w the world *)
(* the attempt meets, env the value of GIANT_SQUID_BUF_SIZE.  The value    *)
(* tells the attempt's result, the destination file and the unpacked       *)
(* output after it, whether a file request was issued and with which first *)
(* byte in its Range header, which message the attempt logged last, and    *)
(* which bytes of the response the hash accumulator had not taken when the *)
(* digest was finalised, and whether the attempt ran the hash check of the *)
(* destination file and could not read a file whose hash is right.         *)
(***************************************************************************)
Attempt(res, file, unpacked, sent, first, note) ==
    [res |-> res, file |-> file, unpacked |-> unpacked, sent |-> sent,
     first |-> first, note |-> note, left |-> <<>>, misread |-> FALSE]

\* Line 406: with --no-resume a partial file is skipped.
SkipsPartialNever(no_resume, L, size) == FALSE
SkipsPartial(no_resume, L, size) == no_resume /\ L < size

\* Lines 609-616: tee.read_to_end(..).  The tee hands every byte read
\* through it to the hash accumulator; after the writer or the decoder has
\* consumed its bytes of the response, the rest is read through the tee.
\* The value is what the accumulator has taken by then.
ReadNoFurther(body, consumed) == consumed
ReadToEnd(body, consumed) == consumed \o SubSeq(body, Len(consumed) + 1, Len(body))

\* An attempt that finalised its digest over hashed, of a response body.
Finalised(a, body, hashed) ==
    [a EXCEPT !.left = SubSeq(body, Len(hashed) + 1, Len(body))]

\* Lines 609-641: the digest of the bytes of the response, compared with the
\* manifest hash when hash is set.
VerifyDigest(hash, body, file_info, jobid, url) ==
    IF hash /\ ~eq_ignore_ascii_case(FormatHex(Sha1(body)), file_info.sha1)
    THEN ErrHashMismatch(jobid, url, FormatHex(Sha1(body)), file_info.sha1)
    ELSE Ok

\* Lines 471-521: the ranged GET and the copy of the response into out_file,
\* which holds start and is writable or not.  With a buffer of no bytes
\* fill_buf returns an empty buffer at once: the loop ends having read and
\* written nothing, and the response is read by read_to_end alone.
StreamToFile(url, hash, file_info, jobid, start, writable, first, w, file_buf) ==
    LET body == ServerResponse(w.server, url, first).body
        k == ReadFailsAt(w, body)
        cut == (ReadFails(w) \/ w.fault.kind = "write") /\ k < Len(body)
    IN  IF w.fault.kind = "send"
        THEN Attempt(ErrReqwest, FileOf(start), NoFile, TRUE, first, "starting")
        ELSE IF file_buf.res # Ok
        THEN Attempt(file_buf.res, FileOf(start), NoFile, TRUE, first, "downloading")
        ELSE IF file_buf.empty
        THEN IF ReadFails(w) /\ cut
             THEN Attempt(ErrIO("network"), FileOf(start), NoFile, TRUE, first,
                          "downloading")
             ELSE LET hashed == ReadToEnd(body, <<>>)
                  IN  Finalised(Attempt(VerifyDigest(hash, hashed, file_info, jobid, url),
                                        FileOf(start), NoFile, TRUE, first, "streamed"),
                                body, hashed)
        ELSE IF ReadFails(w) /\ k = 0 /\ cut
        THEN Attempt(ErrIO("network"), FileOf(start), NoFile, TRUE, first, "downloading")
        ELSE IF ~writable /\ body # <<>>
        THEN Attempt(ErrIO("disk"), FileOf(start), NoFile, TRUE, first, "downloading")
        ELSE IF cut
        THEN Attempt(ErrIO(IF ReadFails(w) THEN "network" ELSE "disk"),
                     FileOf(start \o Prefix(body, k)), NoFile, TRUE, first, "downloading")
        ELSE LET hashed == ReadToEnd(body, body)
             IN  Finalised(Attempt(VerifyDigest(hash, hashed, file_info, jobid, url),
                                   FileOf(start \o body), NoFile, TRUE, first, "streamed"),
                           body, hashed)

\* Lines 390-521: the archive-preserving path (--keep-tar).
KeepTar(url, no_resume, hash, file_info, jobid, file, w, file_buf) ==
    LET L == Len(file.data)
        file_size_bytes == IF file.exists THEN L ELSE 0
        \* Lines 422-433: any Err of the check is taken for another hash.
        matches == /\ w.fault.kind # "check"
                   /\ check_file_sha1_hash(file.data, file_info.sha1)
        \* The check could not read a file whose hash is the manifest's.
        misread == /\ file.exists /\ L = file_info.size
                   /\ w.fault.kind = "check"
                   /\ check_file_sha1_hash(file.data, file_info.sha1)
    IN  IF w.fault.kind = "open"
        THEN Attempt(ErrIO("disk"), file, NoFile, FALSE, -1, "starting")
        ELSE IF file.exists /\ SkipsPartial(no_resume, L, file_info.size)
        THEN Attempt(Ok, file, NoFile, FALSE, -1, "partial_no_resume")
        ELSE IF file.exists /\ L = file_info.size /\ matches
        THEN Attempt(Ok, file, NoFile, FALSE, -1, "already_complete")
        ELSE IF file.exists /\ L = file_info.size /\ no_resume
        THEN [Attempt(Ok, file, NoFile, FALSE, -1, "mismatch_no_resume")
                 EXCEPT !.misread = misread]
        ELSE LET created == ~file.exists \/ L = file_info.size
                 start == IF created THEN <<>> ELSE file.data
                 writable == created \/ ~no_resume
             IN  [StreamToFile(url, hash, file_info, jobid, start, writable,
                               file_size_bytes, w, file_buf)
                     EXCEPT !.misread = misread]

\* Whether the archive decoder accepts the bytes as an archive: an empty
\* stream is an archive without entries, an error document is none.
IsTar(body) == body = <<>> \/ body[1] # ErrDoc[1]

\* Lines 522-607: the extraction path: a GET without Range, the response
\* decoded entry by entry into the download directory.  The decoder stops
\* before the last byte of the archive (its trailing padding), which
\* read_to_end reads.  An entry the decoder cannot read makes file.unwrap()
\* panic; a read that fails inside an entry's data, and one that fails in
\* the trailing bytes, is returned as an IO error.  With a buffer of no
\* bytes the entry's file is created and nothing is copied into it; the
\* decoder then reads past the entry's data itself.
Untar(url, hash, file_info, jobid, file, w, file_buf) ==
    LET body == ServerResponse(w.server, url, -1).body
        k == ReadFailsAt(w, body)
        decoded == SubSeq(body, 1, Len(body) - 1)
        copied == IF file_buf.empty THEN <<>> ELSE decoded
        inData == w.fault.kind = "netread" /\ 0 < k /\ k < Len(decoded)
        inTrailer == w.fault.kind = "netread" /\ Len(decoded) <= k /\ k < Len(body)
    IN  IF w.fault.kind = "send"
        THEN Attempt(ErrReqwest, file, NoFile, TRUE, -1, "untarring")
        ELSE IF ~IsTar(body) \/ (w.fault.kind = "netread" /\ k = 0 /\ body # <<>>)
        THEN Attempt(Panic, file, NoFile, TRUE, -1, "untarring")
        ELSE IF decoded # <<>> /\ file_buf.res # Ok
        THEN Attempt(file_buf.res, file, NoFile, TRUE, -1, "untarring")
        ELSE IF w.fault.kind = "open" /\ decoded # <<>>
        THEN Attempt(ErrIO("disk"), file, NoFile, TRUE, -1, "untarring")
        ELSE IF inData /\ ~file_buf.empty
        THEN Attempt(ErrIO("network"), file, FileOf(Prefix(decoded, k)), TRUE, -1,
                     "untarring")
        ELSE IF w.fault.kind = "write" /\ k < Len(decoded) /\ ~file_buf.empty
        THEN Attempt(ErrIO("disk"), file, FileOf(Prefix(decoded, k)), TRUE, -1,
                     "untarring")
        ELSE IF decoded # <<>> /\ (w.fault.kind = "marker" \/ inData)
        THEN Attempt(Panic, file, FileOf(copied), TRUE, -1, "untarring")
        ELSE IF inTrailer
        THEN Attempt(ErrIO("network"), file,
                     IF decoded = <<>> THEN NoFile ELSE FileOf(copied), TRUE, -1,
                     "untarring")
        ELSE LET hashed == ReadToEnd(body, decoded)
             IN  Finalised(Attempt(VerifyDigest(hash, hashed, file_info, jobid, url), file,
                                   IF decoded = <<>> THEN NoFile ELSE FileOf(copied),
                                   TRUE, -1, "streamed"),
                           body, hashed)

\* An error of the environment: GIANT_SQUID_BUF_SIZE is no number.
ErrParse == [type |-> "Parse", cause |-> "environment"]

\* buffer is the value of lines 364-368 and file_buf what
\* BufReader::with_capacity makes of it: buffer_size(env, overflow_checks)
\* and with_capacity(buffer.bytes, memory_bits), the same in every world.
try_download(url, keep_tar, no_resume, hash, file_info, jobid, file, w, buffer, file_buf) ==
    IF buffer.res = "parse"
    THEN Attempt(ErrParse, file, NoFile, FALSE, -1, "starting")
    ELSE IF buffer.res = "panic" \/ ~file_info.sha1.some
    THEN Attempt(Panic, file, NoFile, FALSE, -1, "starting")
    ELSE IF keep_tar
    THEN KeepTar(url, no_resume, hash, file_info, jobid, file, w, file_buf)
    ELSE Untar(url, hash, file_info, jobid, file, w, file_buf)

\* An attempt together with the local fault it met: whether the local file
\* could be opened for the transfer, and whether the hash check could not
\* read a file whose hash is right.
Met(a, w) ==
    [res |-> a.res, file |-> a.file, unpacked |-> a.unpacked, sent |-> a.sent,
     first |-> a.first, note |-> a.note, left |-> a.left,
     opened |-> w.fault.kind # "open", misread |-> a.misread]

(***************************************************************************)
(* State.                                                                  *)
(***************************************************************************)
VARIABLES
    \* ---- one job's download (AsvoClient::download) ----
    opts,       \* the options: keep_tar, no_resume, hash, download_dir, and the
                \* environment: buf_size, overflow_checks, memory_bits
    job,        \* the job as the catalog gave it: jobid, obsid, state, files
    disk,       \* the destination file (out_path) of each url
    unpacked,   \* what the extraction path has written for each url
    moved,      \* the scratch entries renamed, and the directory each went into
    pc,         \* where download is: start, file, retry, completed, done
    idx,        \* index in the manifest of the file being transferred
    retries,    \* backoff cycles the current file has consumed
    elapsed,    \* start_time.elapsed().as_secs(), saturating at MaxSecs
    result,     \* what download returned (or that it panicked)
    retried,    \* per manifest index, what retry(..) returned for the file
    requested,  \* the urls a file request has been issued for
    last,       \* the last transfer attempt: file before, result, request
    calls,      \* how many times the transfer engine has been invoked
    \* ---- the download command (main, Args::Download) ----
    orch,
    \* ---- the poll loop (wait_loop) ----
    wait,
    \* ---- the submit command (main, Args::SubmitVis) ----
    sub,
    \* ---- a download by obsid (AsvoClient::download_obsid) ----
    pick,
    \* ---- the cancel command (main, Args::Cancel) ----
    cancel,
    \* ---- an argument of the command line (parse_jobid_or_obsid) ----
    arg

dvars == <<opts, job, disk, unpacked, moved, pc, idx, retries, elapsed, result,
           retried, requested, last, calls>>
vars == <<dvars, orch, wait, sub, pick, cancel, arg>>

(***************************************************************************)
(* The inputs of a download: the job with its manifest, the options and    *)
(* the download directory as earlier runs left it.                         *)
(***************************************************************************)
Urls == 1..MaxFiles

\* A manifest entry (AsvoFilesArray).  url is 0 for None; path is "none",
\* "here" (a path that exists on this host) or "away" (one that does not).
Entry(type, url, path, sha1) ==
    [type |-> type, url |-> url, path |-> path, size |-> FileSize, sha1 |-> sha1]

ManifestHash(u, upper) == [some |-> TRUE, digits |-> Sha1(Content(u)), upper |-> upper]

EntriesAt(i) ==
    {Entry("acacia", i, "none", ManifestHash(i, up)) : up \in BOOLEAN}
    \cup {Entry("acacia", 0, "none", ManifestHash(i, FALSE)),
          Entry("acacia", i, "none", NoHash),
          Entry("dug", 0, "none", NoHash),
          Entry("scratch", 0, "here", NoHash),
          Entry("scratch", 0, "away", NoHash),
          Entry("scratch", 0, "none", NoHash)}

\* The manifests of the model: plain cloud entries followed by one entry of
\* any kind.
PlainEntry(i) == Entry("acacia", i, "none", ManifestHash(i, FALSE))
Manifests ==
    UNION {{[i \in 1..n |-> IF i < n THEN PlainEntry(i) ELSE e] : e \in EntriesAt(n)} :
              n \in 1..MaxFiles}

JobId == 575929
ObsId == 1339896408

Jobs ==
    {[jobid |-> JobId, obsid |-> ObsId, state |-> "Ready", files |-> [some |-> TRUE, list |-> m]] :
        m \in Manifests}
    \cup {[jobid |-> JobId, obsid |-> ObsId, state |-> st,
           files |-> [some |-> TRUE, list |-> <<Entry("acacia", 1, "none", ManifestHash(1, FALSE))>>]] :
            st \in {"Queued", "Error", "Expired"}}
    \cup {[jobid |-> JobId, obsid |-> ObsId, state |-> "Ready", files |-> f] :
            f \in {[some |-> FALSE, list |-> <<>>], [some |-> TRUE, list |-> <<>>]}}

\* What an earlier run can have left at out_path: nothing, a prefix of the
\* object (empty, partial, complete), a file of the same length with other
\* content, or a file longer than the object.
InitialFiles(u) ==
    {NoFile, FileOf(Content(u) \o <<1>>)}
    \cup {FileOf(Prefix(Content(u), k)) : k \in 0..FileSize}
    \cup {FileOf(Corrupt(Prefix(Content(u), k))) : k \in 1..FileSize}

Disks == {[u \in Urls |-> IF u = 1 THEN f ELSE NoFile] : f \in InitialFiles(1)}

\* The record of a transfer attempt: the entry (index idx of the manifest,
\* url), the backoff cycles consumed before it, the destination file before
\* it, and what try_download did.
\* Lines 477-484: the value the request carries in its RANGE header, built
\* by format!("Range: bytes={}-{}", file_size_bytes, file_info.size); the
\* extraction path sends no such header.
RangeHeader(file_size_bytes, size) ==
    [text |-> "Range: bytes=", first |-> file_size_bytes, last |-> size]
NoRange == [text |-> "", first |-> -1, last |-> -1]

Record(i, u, cycle, before, a) ==
    [idx |-> i, url |-> u, cycle |-> cycle, before |-> before, res |-> a.res,
     sent |-> a.sent, first |-> a.first, note |-> a.note, left |-> a.left,
     opened |-> a.opened, misread |-> a.misread,
     range |-> IF a.sent /\ a.first >= 0 THEN RangeHeader(a.first, FileSize) ELSE NoRange]
NoAttempt ==
    Record(0, 0, 0, NoFile,
           Met(Attempt(NoResult, NoFile, NoFile, FALSE, -1, "none"), [fault |-> NoFault]))
NotRetried == [res |-> NoResult, note |-> "none"]

OrchIdle == [phase |-> "idle"]
WaitIdle == [phase |-> "idle"]
SubIdle == [phase |-> "idle"]
PickIdle == [phase |-> "idle"]
CancelIdle == [phase |-> "idle"]
ArgIdle == [phase |-> "idle"]

\* GIANT_SQUID_BUF_SIZE acts inside one transfer attempt, on the one file of
\* the attempt: a value other than the default is an input of the downloads
\* of a manifest with one entry.  The build (with overflow checks or
\* without) and the memory of the machine are inputs where they make a
\* difference: where the product overflows, where the buffer is too large
\* for the smaller machine.
\* --download-dir: the current directory (the default ".") or another
\* directory.  The two are told apart where the code tells them apart, for
\* a manifest with an entry delivered to the scratch filesystem.
CurrentDir == "."
Dirs == {CurrentDir, "elsewhere"}
HasScratch(j) == \E i \in DOMAIN j.files.list : j.files.list[i].type = "scratch"

DownloadInit ==
    /\ opts \in [keep_tar : BOOLEAN, no_resume : BOOLEAN, hash : BOOLEAN,
                 download_dir : Dirs, buf_size : BufSizes,
                 overflow_checks : BOOLEAN, memory_bits : MemoryBits]
    /\ ~opts.overflow_checks
         \/ buffer_size(opts.buf_size, TRUE) # buffer_size(opts.buf_size, FALSE)
    /\ opts.memory_bits = 48
         \/ \E m \in MemoryBits :
               with_capacity(buffer_size(opts.buf_size, FALSE).bytes, m)
                  # with_capacity(buffer_size(opts.buf_size, FALSE).bytes, opts.memory_bits)
    /\ job \in Jobs
    /\ opts.download_dir = CurrentDir \/ HasScratch(job)
    /\ opts.buf_size = "unset" \/ Len(job.files.list) = 1
    /\ disk \in Disks
    /\ unpacked = [u \in Urls |-> NoFile]
    /\ moved = {}
    /\ pc = "start"
    /\ idx = 0
    /\ retries = 0
    /\ elapsed = 0
    /\ result = NoResult
    /\ retried = [i \in 1..MaxFiles |-> NotRetried]
    /\ requested = {}
    /\ last = NoAttempt
    /\ calls = 0

\* No download is modelled: the download variables stay as they are here.
DownloadIdle ==
    /\ opts = [keep_tar |-> FALSE, no_resume |-> FALSE, hash |-> TRUE,
               download_dir |-> CurrentDir, buf_size |-> "unset",
               overflow_checks |-> FALSE, memory_bits |-> 48]
    /\ job = [jobid |-> JobId, obsid |-> ObsId, state |-> "Ready",
              files |-> [some |-> FALSE, list |-> <<>>]]
    /\ disk = [u \in Urls |-> NoFile]
    /\ DownloadInit

Init ==
    /\ DownloadInit
    /\ orch = OrchIdle
    /\ wait = WaitIdle
    /\ sub = SubIdle
    /\ pick = PickIdle
    /\ cancel = CancelIdle
    /\ arg = ArgIdle

(***************************************************************************)
(* AsvoClient::download.                                                   *)
(***************************************************************************)
Files == job.files.list

Return(r) ==
    /\ result' = r
    /\ pc' = "done"

\* Line 229: the states in which a job is downloaded.
AnyState(state) == TRUE
IsDownloadable(state) == state = "Ready"

\* Lines 228-252: the job must be Ready and have files.
Begin ==
    /\ pc = "start"
    /\ \/ /\ ~IsDownloadable(job.state)
          /\ Return(ErrNotReady(job.jobid, job.state))
          /\ UNCHANGED <<idx, elapsed>>
       \/ /\ IsDownloadable(job.state)
          /\ ~job.files.some \/ Files = <<>>
          /\ Return(ErrNoFiles(job.jobid))
          /\ UNCHANGED <<idx, elapsed>>
       \/ /\ IsDownloadable(job.state)
          /\ job.files.some /\ Files # <<>>
          /\ pc' = "file"
          /\ idx' = 1
          /\ elapsed' = 0
          /\ UNCHANGED result
    /\ UNCHANGED <<opts, job, disk, unpacked, moved, retries, retried, requested,
                   last, calls, orch, wait, sub, pick, cancel, arg>>

\* Line 255: for f in files: the entry taken up when the body of the loop
\* has finished with entry i.
SameEntry(i) == i
NextEntry(i) == i + 1

\* Lines 255-345: the next entry of the manifest, by delivery type; past the
\* last entry download returns Ok (line 347).
NextFile ==
    /\ pc = "file"
    /\ \/ /\ idx > Len(Files)
          /\ Return(Ok)
          /\ UNCHANGED <<idx, retries, moved>>
       \/ /\ idx <= Len(Files)
          /\ Files[idx].type = "acacia"
          /\ Files[idx].url # 0
          /\ pc' = "retry"
          /\ retries' = 0
          /\ UNCHANGED <<idx, result, moved>>
       \/ /\ idx <= Len(Files)
          /\ Files[idx].type = "acacia"
          /\ Files[idx].url = 0
          /\ Return(ErrNoUrl(job.jobid))
          /\ UNCHANGED <<idx, retries, moved>>
       \/ /\ idx <= Len(Files)
          /\ Files[idx].type = "dug"
          /\ idx' = NextEntry(idx)
          /\ UNCHANGED <<pc, result, retries, moved>>
       \/ /\ idx <= Len(Files)
          /\ Files[idx].type = "scratch"
          /\ Files[idx].path = "away"
          /\ idx' = NextEntry(idx)
          /\ UNCHANGED <<pc, result, retries, moved>>
       \/ /\ idx <= Len(Files)
          /\ Files[idx].type = "scratch"
          /\ Files[idx].path = "here"
          /\ \/ /\ moved' = moved \cup {[idx |-> idx, into |-> CurrentDir]}
                /\ idx' = NextEntry(idx)
                /\ UNCHANGED <<pc, result, retries>>
             \/ /\ Return(ErrIO("disk"))
                /\ UNCHANGED <<idx, retries, moved>>
       \/ /\ idx <= Len(Files)
          /\ Files[idx].type = "scratch"
          /\ Files[idx].path = "none"
          /\ Return(ErrNoPath(job.jobid))
          /\ UNCHANGED <<idx, retries, moved>>
    /\ UNCHANGED <<opts, job, disk, unpacked, elapsed, retried, requested, last,
                   calls, orch, wait, sub, pick, cancel, arg>>

\* Lines 279-282: the classification of an attempt's error for the retry
\* controller: the IO variant is permanent, every other variant transient.
AllTransient(e) == FALSE
IsPermanent(e) == e.type = "IO"

\* Whether the backoff still grants a cycle (next_backoff() is Some).
BudgetRemains(n) == n < MaxRetries

\* Lines 285-288: what download does with the value retry(..) returned:
\* only a permanent error is returned to the caller.
IgnoresError(r, permanent) == FALSE
ReturnsError(r, permanent) == IsErr(r) /\ permanent

\* Lines 266-278: the closure op: one call of try_download for entry f, in
\* any of the worlds.
Attempts(f, file) ==
    LET buffer == buffer_size(opts.buf_size, opts.overflow_checks)
        file_buf == with_capacity(buffer.bytes, opts.memory_bits)
    IN  {Met(try_download(f.url, opts.keep_tar, opts.no_resume, opts.hash, f,
                          job.jobid, file, w, buffer, file_buf), w) : w \in Worlds}

\* Lines 266-288: one call of op by retry(ExponentialBackoff::default(), op):
\* the attempt, its classification, and either the sleep before the next
\* attempt or the return of retry to download.
RetryAttempt ==
    /\ pc = "retry"
    /\ \E a \in Attempts(Files[idx], disk[Files[idx].url]),
          now \in {elapsed, Min(elapsed + 1, MaxSecs)} :
         LET u == Files[idx].url
             permanent == IsErr(a.res) /\ IsPermanent(a.res)
             again == IsErr(a.res) /\ ~permanent /\ BudgetRemains(retries)
             exhausted == IsErr(a.res) /\ ~permanent /\ ~BudgetRemains(retries)
         IN  /\ disk' = [disk EXCEPT ![u] = a.file]
             /\ unpacked' = [unpacked EXCEPT ![u] =
                                IF a.unpacked.exists THEN a.unpacked ELSE @]
             /\ requested' = IF a.sent THEN requested \cup {u} ELSE requested
             /\ last' = Record(idx, u, retries, disk[u], a)
             /\ elapsed' = IF exhausted THEN Max(now, 1) ELSE now
             /\ IF a.res \in {Panic, Abort}
                THEN /\ Return(a.res)
                     /\ UNCHANGED <<retries, retried>>
                ELSE IF again
                THEN /\ retries' = retries + 1
                     /\ UNCHANGED <<pc, result, retried>>
                ELSE /\ retried' = [retried EXCEPT ![idx] = [res |-> a.res, note |-> a.note]]
                     /\ UNCHANGED retries
                     /\ IF ReturnsError(a.res, permanent)
                        THEN Return(a.res)
                        ELSE /\ pc' = "completed"
                             /\ UNCHANGED result
    /\ UNCHANGED <<opts, job, moved, idx, calls, orch, wait, sub, pick, cancel, arg>>

\* Lines 290-305: the "Completed download" line, whose rate divides the
\* file size by the whole seconds elapsed, and the step to the next entry.
Completed ==
    /\ pc = "completed"
    /\ \/ /\ elapsed = 0
          /\ Return(Panic)
          /\ UNCHANGED idx
       \/ /\ elapsed > 0
          /\ idx' = NextEntry(idx)
          /\ pc' = "file"
          /\ UNCHANGED result
    /\ UNCHANGED <<opts, job, disk, unpacked, moved, retries, elapsed, retried,
                   requested, last, calls, orch, wait, sub, pick, cancel, arg>>

Next == Begin \/ NextFile \/ RetryAttempt \/ Completed

Spec == Init /\ [][Next]_vars

(***************************************************************************)
(* SpecXfer: the transfer engine alone.  try_download is invoked again and *)
(* again on the one cloud entry of a manifest, each time in any world,     *)
(* over the destination file the invocation before left.                   *)
(***************************************************************************)
XferInit ==
    /\ Init
    /\ job.state = "Ready"
    /\ Len(Files) = 1
    /\ Files[1].type = "acacia"
    /\ Files[1].url # 0

Invoke ==
    /\ calls < MaxCalls
    /\ \E a \in Attempts(Files[1], disk[Files[1].url]) :
         LET u == Files[1].url
         IN  /\ disk' = [disk EXCEPT ![u] = a.file]
             /\ unpacked' = [unpacked EXCEPT ![u] =
                                IF a.unpacked.exists THEN a.unpacked ELSE @]
             /\ requested' = IF a.sent THEN requested \cup {u} ELSE requested
             /\ last' = Record(1, u, calls, disk[u], a)
    /\ calls' = calls + 1
    /\ UNCHANGED <<opts, job, moved, pc, idx, retries, elapsed, result, retried,
                   orch, wait, sub, pick, cancel, arg>>

XferNext == Invoke

SpecXfer == XferInit /\ [][XferNext]_vars

(***************************************************************************)
(* SpecOrch: the download command (main, Args::Download).  The ids of the  *)
(* command line are parsed into job ids and obsids; the job ids are         *)
(* downloaded by a pool of worker threads, then the obsids, and then the    *)
(* errors are reported.  A download is one call of run_jobid_download or    *)
(* run_obsid_download; how it ends is one of the ways download ends in      *)
(* Spec: Ok, an error, a panic, or the abort of the process.                *)
(***************************************************************************)
\* A command-line argument: a job id, an obsid, or a string that is no
\* integer and names no readable file.
ArgKinds == {"jobid", "obsid", "nofile"}
OrchArgs == UNION {[1..n -> ArgKinds] : n \in 0..MaxArgs}

\* How a download ends.
Outcomes == {"ok", "err", "panic"}

\* Where a worker ends (run_jobid_download, run_obsid_download): in
\* AsvoClient::new, whose error the expect turns into a panic; in get_jobs,
\* whose error download_jobid and download_obsid return and whose
\* conversion of the rows panics on a job_state it has no arm for; or past
\* both, in the look-up of the job and its download, where a buffer the
\* machine cannot allocate aborts the process.
Ends ==
    {[status |-> "panic", at |-> "auth"]}
    \cup [status : {"err", "panic"}, at : {"catalog"}]
    \cup [status : Outcomes \cup {"abort"}, at : {"job"}]

\* A pool with a thread for every download.
PoolOfAll(concurrent_downloads) == MaxArgs

\* Line 574: num_threads(0) makes the pool as large as the machine.
PoolSize(concurrent_downloads) ==
    IF concurrent_downloads = 0 THEN NumCpus ELSE concurrent_downloads

\* Lines 599-614: the results are collected into a Vec of Results, so an Err
\* does not stop the iteration; only a panic of a worker makes the pool
\* drop the work not yet started and unwinds into main.
HaltsOnFailure(status) == status \in {"err", "panic"}
Halts(status) == status = "panic"

OrchInputs ==
    [phase : {"args"}, args : OrchArgs, dry_run : BOOLEAN,
     concurrent_downloads : 0..MaxThreads,
     status : {<<>>}, at : {<<>>}, reported : {<<>>}]

\* The indexes (in the order of the command line) of the ids of a group.
Group(g) == {i \in DOMAIN orch.args : orch.args[i] = (IF g = "jobids" THEN "jobid" ELSE "obsid")}
Running == {i \in DOMAIN orch.status : orch.status[i] = "running"}

RECURSIVE Ascending(_)
Ascending(S) ==
    IF S = {} THEN <<>>
    ELSE LET m == CHOOSE x \in S : \A y \in S : x <= y
         IN  <<m>> \o Ascending(S \ {m})

\* Lines 636-642: the failed downloads, job ids first, then obsids.
Failed(g) == {i \in Group(g) : orch.status[i] = "err"}
ErrorReport == Ascending(Failed("jobids")) \o Ascending(Failed("obsids"))

OrchInit ==
    /\ DownloadIdle
    /\ orch \in OrchInputs
    /\ wait = WaitIdle
    /\ sub = SubIdle
    /\ pick = PickIdle
    /\ cancel = CancelIdle
    /\ arg = ArgIdle

\* Lines 562-594: no ids, ids that do not parse, a dry run, or the downloads.
OrchStart ==
    /\ orch.phase = "args"
    /\ \/ /\ orch.args = <<>>
          /\ orch' = [orch EXCEPT !.phase = "failed"]
       \/ /\ orch.args # <<>>
          /\ \E i \in DOMAIN orch.args : orch.args[i] = "nofile"
          /\ orch' = [orch EXCEPT !.phase = "failed"]
       \/ /\ orch.args # <<>>
          /\ \A i \in DOMAIN orch.args : orch.args[i] # "nofile"
          /\ orch.dry_run
          /\ orch' = [orch EXCEPT !.phase = "done"]
       \/ /\ orch.args # <<>>
          /\ \A i \in DOMAIN orch.args : orch.args[i] # "nofile"
          /\ ~orch.dry_run
          /\ orch' = [orch EXCEPT !.phase = "jobids",
                                  !.status = [i \in DOMAIN orch.args |-> "pending"],
                                  !.at = [i \in DOMAIN orch.args |-> "none"]]
    /\ UNCHANGED <<dvars, wait, sub, pick, cancel, arg>>

\* A worker thread of the pool takes a download of the current group.
StartDownload ==
    /\ orch.phase \in {"jobids", "obsids"}
    /\ Cardinality(Running) < PoolSize(orch.concurrent_downloads)
    /\ \E i \in Group(orch.phase) :
         /\ orch.status[i] = "pending"
         /\ orch' = [orch EXCEPT !.status[i] = "running"]
    /\ UNCHANGED <<dvars, wait, sub, pick, cancel, arg>>

\* Lines 53-82, 84-113: a download ends; an abort ends the process, the
\* other downloads and the report with it.
FinishDownload ==
    /\ orch.phase \in {"jobids", "obsids"}
    /\ \E i \in Running, e \in Ends :
         orch' = [orch EXCEPT !.status[i] = e.status, !.at[i] = e.at,
                              !.phase = IF e.status = "abort" THEN "aborted" ELSE @]
    /\ UNCHANGED <<dvars, wait, sub, pick, cancel, arg>>

\* After a worker has halted the iteration, the pool may drop a download it
\* has not started.
SkipDownload ==
    /\ orch.phase \in {"jobids", "obsids"}
    /\ \E j \in Group(orch.phase) : Halts(orch.status[j])
    /\ \E i \in Group(orch.phase) :
         /\ orch.status[i] = "pending"
         /\ orch' = [orch EXCEPT !.status[i] = "skipped"]
    /\ UNCHANGED <<dvars, wait, sub, pick, cancel, arg>>

\* Lines 599-614, 616-631: par_iter().map(..).collect() of a group returns
\* when no download of the group is waiting or running.
CollectedOnceStarted(g) == \A i \in Group(g) : orch.status[i] # "pending"
Collected(g) == \A i \in Group(g) : orch.status[i] \notin {"pending", "running"}

\* collect() returns when every download of the group has ended; a halted
\* iteration resumes its panic in main.
GroupDone ==
    /\ orch.phase \in {"jobids", "obsids"}
    /\ Collected(orch.phase)
    /\ IF \E j \in Group(orch.phase) : Halts(orch.status[j])
       THEN orch' = [orch EXCEPT !.phase = "panicked"]
       ELSE orch' = [orch EXCEPT !.phase = IF orch.phase = "jobids" THEN "obsids"
                                                                     ELSE "report"]
    /\ UNCHANGED <<dvars, wait, sub, pick, cancel, arg>>

\* Lines 633-642: every Err of the two result vectors is logged.
Report ==
    /\ orch.phase = "report"
    /\ orch' = [orch EXCEPT !.phase = "done", !.reported = ErrorReport]
    /\ UNCHANGED <<dvars, wait, sub, pick, cancel, arg>>

OrchNext ==
    OrchStart \/ StartDownload \/ FinishDownload \/ SkipDownload \/ GroupDone \/ Report

SpecOrch == OrchInit /\ [][OrchNext]_vars

(***************************************************************************)
(* SpecWait: wait_loop over a catalog that changes between the cycles.     *)
(***************************************************************************)
WaitJobIds == JobId..(JobId + MaxWaitJobs - 1)
ObsidOf(j) == ObsId + 8 * (j - JobId)
\* The error text the catalog holds for job j.
ErrorText(j) == <<"error_text", j>>

\* AsvoJobState, and "absent" for a job id the catalog does not list.
JobStates == {"Queued", "Processing", "Ready", "Error", "Expired", "Cancelled"}
Catalogs == [WaitJobIds -> JobStates \cup {"absent"}]

ErrNoAsvoJob(j) == [type |-> "NoAsvoJob", jobid |-> j]
ErrUpstreamError(j, obsid, error) ==
    [type |-> "UpstreamError", jobid |-> j, obsid |-> obsid, error |-> error]
ErrExpired(j) == [type |-> "Expired", jobid |-> j]
ErrCancelled(j) == [type |-> "Cancelled", jobid |-> j]
ErrBadStatus == [type |-> "BadStatus", cause |-> "network"]
ErrBadJson == [type |-> "BadJson"]

\* AsvoClient::get_jobs: the errors it returns: the request cannot be sent
\* or the body cannot be read (Reqwest), the status is no success
\* (BadStatus), the body is not the JSON of a job list (BadJson).
GetJobsErrors == {ErrReqwest, ErrBadStatus, ErrBadJson}

\* Lines 467-484: the states on which the wait returns an error.
FailsOnErrorOrExpired(state) == state \in {"Error", "Expired"}
FailsOn(state) == state \in {"Error", "Expired", "Cancelled"}

\* Lines 459-462: the id is not in the map of the jobs fetched.
NeverAbsent(state) == FALSE
IsAbsent(state) == state = "absent"

\* Lines 467, 477-480: only Ready leaves any_not_ready as it is.
IsReadyOrQueued(state) == state \in {"Ready", "Queued"}
NeverReady(state) == FALSE
IsReady(state) == state = "Ready"

FailureOf(j, state) ==
    CASE state = "Error" -> ErrUpstreamError(j, ObsidOf(j), ErrorText(j))
      [] state = "Expired" -> ErrExpired(j)
      [] state = "Cancelled" -> ErrCancelled(j)

\* Lines 483-490: last_state.insert(j, state) gives the state remembered
\* for j ("none" for None); the state is logged when there was none or
\* another one.
LogsAlways(previous, state) == TRUE
Logs(previous, state) == previous # state

\* Lines 457-491: the for loop of one cycle over the supplied job ids, from
\* the i-th on: the error it returns on, or else whether any id is not
\* ready, with the states remembered and the ids whose state was logged.
RECURSIVE Scan(_, _, _, _, _, _)
Scan(jobids, jobs, i, last_state, any_not_ready, logged) ==
    IF i > Len(jobids)
    THEN [res |-> NoResult, last_state |-> last_state,
          any_not_ready |-> any_not_ready, logged |-> logged]
    ELSE LET j == jobids[i]
             state == jobs[j]
         IN  IF IsAbsent(state)
             THEN [res |-> ErrNoAsvoJob(j), last_state |-> last_state,
                   any_not_ready |-> any_not_ready, logged |-> logged]
             ELSE IF FailsOn(state)
             THEN [res |-> FailureOf(j, state), last_state |-> last_state,
                   any_not_ready |-> any_not_ready, logged |-> logged]
             ELSE Scan(jobids, jobs, i + 1, [last_state EXCEPT ![j] = state],
                       any_not_ready \/ ~IsReady(state),
                       IF Logs(last_state[j], state) THEN logged \cup {j} ELSE logged)

\* How the catalog may change between two fetches.
Successors(state) ==
    CASE state = "Queued" -> {"Processing", "Error", "Cancelled"}
      [] state = "Processing" -> {"Ready", "Error", "Cancelled"}
      [] state = "Ready" -> {"Expired"}
      [] OTHER -> {}

NoSnapshot == [j \in WaitJobIds |-> "none"]

WaitInputs ==
    [phase : {"grace"},
     jobids : UNION {[1..n -> WaitJobIds] : n \in 0..MaxWaitJobs},
     catalog : Catalogs,
     jobs : {NoSnapshot}, last_state : {NoSnapshot}, logged : {{}},
     fetches : {0}, result : {NoResult}]

WaitInit ==
    /\ DownloadIdle
    /\ orch = OrchIdle
    /\ wait \in WaitInputs
    /\ sub = SubIdle
    /\ pick = PickIdle
    /\ cancel = CancelIdle
    /\ arg = ArgIdle

\* Line 450: the sleep of one second before the first fetch.
Grace ==
    /\ wait.phase = "grace"
    /\ wait' = [wait EXCEPT !.phase = "poll"]
    /\ UNCHANGED <<dvars, orch, sub, pick, cancel, arg>>

\* Lines 451-498: one cycle, the n-th fetch: get_jobs, which may fail, and
\* the for loop.
Cycle(n) ==
    \/ \E e \in GetJobsErrors :
         wait' = [wait EXCEPT !.phase = "done", !.fetches = n, !.result = e]
    \/ LET s == Scan(wait.jobids, wait.catalog, 1, wait.last_state, FALSE, {})
       IN  wait' = [wait EXCEPT
                      !.fetches = n,
                      !.jobs = wait.catalog,
                      !.last_state = s.last_state,
                      !.logged = s.logged,
                      !.phase = IF IsErr(s.res) \/ ~s.any_not_ready
                                THEN "done" ELSE "sleep",
                      !.result = IF IsErr(s.res) THEN s.res
                                 ELSE IF s.any_not_ready THEN NoResult ELSE Ok]

PollCycle ==
    /\ wait.phase = "poll"
    /\ wait.fetches < MaxFetches
    /\ Cycle(wait.fetches + 1)
    /\ UNCHANGED <<dvars, orch, sub, pick, cancel, arg>>

\* Line 493: the sleep of 60 seconds between two cycles.
Sleep ==
    /\ wait.phase = "sleep"
    /\ wait' = [wait EXCEPT !.phase = "poll"]
    /\ UNCHANGED <<dvars, orch, sub, pick, cancel, arg>>

\* The service moves a job on while the wait sleeps.
ServerStep ==
    /\ wait.phase \in {"grace", "sleep"}
    /\ \E j \in WaitJobIds :
         /\ wait.catalog[j] # "absent"
         /\ \E state \in Successors(wait.catalog[j]) :
              wait' = [wait EXCEPT !.catalog[j] = state]
    /\ UNCHANGED <<dvars, orch, sub, pick, cancel, arg>>

WaitNext == Grace \/ PollCycle \/ Sleep \/ ServerStep

SpecWait == WaitInit /\ [][WaitNext]_vars

(***************************************************************************)
(* SpecWaitLive: wait_loop with no bound on its cycles (the fetches are not *)
(* counted: fetches tells only that one was made).  The thread is          *)
(* scheduled: a sleep ends and the cycle after it runs.  Nothing makes the *)
(* service move a job.  The ids are given once each, in ascending order:   *)
(* which of several failed jobs the wait reports is a matter of SpecWait.  *)
(***************************************************************************)
WaitLiveInit ==
    /\ WaitInit
    /\ \A i \in 1..(Len(wait.jobids) - 1) : wait.jobids[i] < wait.jobids[i + 1]

PollAgain ==
    /\ wait.phase = "poll"
    /\ Cycle(1)
    /\ UNCHANGED <<dvars, orch, sub, pick, cancel, arg>>

WaitLiveNext == Grace \/ PollAgain \/ Sleep \/ ServerStep

SpecWaitLive ==
    /\ WaitLiveInit
    /\ [][WaitLiveNext]_vars
    /\ WF_vars(Grace) /\ WF_vars(PollAgain) /\ WF_vars(Sleep)

(***************************************************************************)
(* The submission interpreter: AsvoSubmitJobResponse and the match of      *)
(* AsvoClient::submit_asvo_job on the decoded response.                    *)
(***************************************************************************)
\* A field of the JSON object of a response: absent, present with a value
\* that is not of the type the struct declares (a null, a string for a
\* number, a negative or fractional number for a u32), or present with a
\* value of that type.
Absent == [kind |-> "absent"]
Wrong == [kind |-> "wrong"]
Val(v) == [kind |-> "ok", v |-> v]
Has(field) == field.kind = "ok"

\* Error messages, as the pieces the code looks at.
Messages ==
    {<<"Unable to submit job. Observation", " 1339896408 has no files">>,
     <<"Observation ", "1339896408", " does not exist">>,
     <<"Observation ", "1339896408", " is not public">>,
     <<"The delivery location", " does not exist">>,
     <<"Your job cannot be submitted as there is a full outage in progress.">>,
     <<"Job already queued, processing or complete">>,
     <<"Permission denied">>}

starts_with(message, piece) == message # <<>> /\ message[1] = piece
ends_with(message, piece) == message # <<>> /\ message[Len(message)] = piece

ErrorCodes == 0..2
SubJobIds == {JobId, JobId + 1}

Bodies ==
    [error : {Absent, Wrong} \cup {Val(m) : m \in Messages},
     error_code : {Absent, Wrong} \cup {Val(c) : c \in ErrorCodes},
     job_id : {Absent, Wrong} \cup {Val(j) : j \in SubJobIds}]

\* Result<Option<AsvoJobID>, AsvoError>.
None == [some |-> FALSE]
Some(v) == [some |-> TRUE, v |-> v]
OkOf(v) == [type |-> "Ok", value |-> v]
ErrBadRequest(code, message) == [type |-> "BadRequest", code |-> code, message |-> message]
ErrMissingAuthKey == [type |-> "MissingAuthKey"]
ErrInvalidDelivery == [type |-> "InvalidDelivery"]

\* Delivery::validate and DeliveryFormat::validate (types.rs 278-298,
\* 321-336): the errors for a wrong argument, a wrong value of the
\* environment variable and a value of it that is not unicode.
DeliveryErrors ==
    {ErrInvalidDelivery, [type |-> "InvalidDeliveryEnv"],
     [type |-> "InvalidDeliveryEnvUnicode"]}
DeliveryFormatErrors ==
    {[type |-> "InvalidDeliveryFormat"], [type |-> "InvalidDeliveryFormatEnv"],
     [type |-> "InvalidDeliveryFormatEnvUnicode"]}

\* AsvoClient::new (mod.rs 72-110): no MWA_ASVO_API_KEY, a client that
\* cannot be built or a login that cannot be sent, a login answered with a
\* status that is no success.
NewClientErrors == {ErrMissingAuthKey, ErrReqwest, ErrBadStatus}

\* asvo_serde.rs 117-133: the variants in the order of their declaration;
\* an untagged enum is decoded as the first variant whose fields are all
\* there with the declared types, other fields being ignored.
Variants == <<"JobIDWithError", "JobID", "ErrorWithCode", "GenericError">>

Fits(variant, body) ==
    CASE variant = "JobIDWithError" ->
            Has(body.error) /\ Has(body.error_code) /\ Has(body.job_id)
      [] variant = "JobID" -> Has(body.job_id)
      [] variant = "ErrorWithCode" -> Has(body.error_code) /\ Has(body.error)
      [] variant = "GenericError" -> Has(body.error)

\* serde_json::from_str::<AsvoSubmitJobResponse>: the variant decoded, or
\* "none" for the decode error.
Decode(body) ==
    LET fit == {k \in DOMAIN Variants : Fits(Variants[k], body)}
    IN  IF fit = {} THEN "none"
        ELSE Variants[CHOOSE k \in fit : \A m \in fit : k <= m]

DuplicateCode == 2
InvalidInputCode == 0
GenericCode == 999

\* mod.rs 854-859: the messages of code 0 that do not stop a batch.
NoMessageRecoverable(message) == FALSE
IsRecoverableMessage(message) ==
    \/ starts_with(message, "Unable to submit job. Observation")
    \/ /\ starts_with(message, "Observation ")
       /\ ends_with(message, " does not exist")

\* An interpreter that takes a body of no known shape as nothing new.
InterpretGuessing(body) ==
    IF Has(body.job_id) THEN OkOf(Some(body.job_id.v))
    ELSE IF Has(body.error) THEN ErrBadRequest(GenericCode, body.error.v)
    ELSE OkOf(None)

\* mod.rs 825-885: the outcome of the submission for the body of the response.
Interpret(body) ==
    LET variant == Decode(body)
    IN  CASE variant = "JobIDWithError" ->
                IF body.error_code.v = DuplicateCode
                THEN OkOf(None)
                ELSE ErrBadRequest(body.error_code.v, body.error.v)
          [] variant = "JobID" -> OkOf(Some(body.job_id.v))
          [] variant = "ErrorWithCode" ->
                IF body.error_code.v = InvalidInputCode
                   /\ IsRecoverableMessage(body.error.v)
                THEN OkOf(None)
                ELSE ErrBadRequest(body.error_code.v, body.error.v)
          [] variant = "GenericError" -> ErrBadRequest(GenericCode, body.error.v)
          [] variant = "none" -> ErrBadJson

\* What the service does with a submission: the request or the read of the
\* response fails, or a response arrives with a status and a body.
Responses ==
    {[fault |-> "send", status |-> 0, body |-> [error |-> Absent, error_code |-> Absent, job_id |-> Absent]]}
    \cup [fault : {"none"}, status : {200, 500}, body : Bodies]

\* mod.rs 798-886: the status is looked at for a warning only.
submit_by_status(response) ==
    IF response.fault = "send" THEN ErrReqwest
    ELSE IF response.status # 200 THEN [type |-> "BadStatus", cause |-> "network"]
    ELSE Interpret(response.body)
submit_asvo_job(response) ==
    IF response.fault = "send" THEN ErrReqwest ELSE Interpret(response.body)

(***************************************************************************)
(* The submit command: main, Args::SubmitVis (giant-squid.rs 646-709).     *)
(***************************************************************************)
SubmitArgs == UNION {[1..n -> {"obsid", "jobid"}] : n \in 0..MaxObsids}

NoResponse ==
    [fault |-> "none", status |-> 0,
     body |-> [error |-> Absent, error_code |-> Absent, job_id |-> Absent]]

\* sent counts the POST requests, at is the argument the next one is for.
SubmitInputs ==
    {[phase |-> "args", args |-> a, dry_run |-> d, wait |-> w, at |-> 1,
      jobids |-> <<>>, submitted_count |-> 0, sent |-> 0, waited |-> FALSE,
      response |-> NoResponse, outcome |-> NoResult, result |-> NoResult] :
        a \in SubmitArgs, d \in BOOLEAN, w \in BOOLEAN}

SubmitInit ==
    /\ DownloadIdle
    /\ orch = OrchIdle
    /\ wait = WaitIdle
    /\ sub \in SubmitInputs
    /\ pick = PickIdle
    /\ cancel = CancelIdle
    /\ arg = ArgIdle

\* Lines 657-682: the arguments, the delivery, the delivery format and,
\* unless the run is dry, the client, which logs in.
SubmitSetup ==
    /\ sub.phase = "args"
    /\ \/ /\ \E i \in DOMAIN sub.args : sub.args[i] = "jobid"
          /\ sub' = [sub EXCEPT !.phase = "failed", !.result = [type |-> "Bail"]]
       \/ /\ \A i \in DOMAIN sub.args : sub.args[i] = "obsid"
          /\ sub.args = <<>>
          /\ sub' = [sub EXCEPT !.phase = "failed", !.result = [type |-> "Bail"]]
       \/ /\ \A i \in DOMAIN sub.args : sub.args[i] = "obsid"
          /\ sub.args # <<>>
          /\ \/ \E e \in DeliveryErrors \cup DeliveryFormatErrors :
                  sub' = [sub EXCEPT !.phase = "failed", !.result = e]
             \/ /\ sub.dry_run
                /\ sub' = [sub EXCEPT !.phase = "done", !.result = Ok]
             \/ /\ ~sub.dry_run
                /\ \E e \in NewClientErrors :
                     sub' = [sub EXCEPT !.phase = "failed", !.result = e]
             \/ /\ ~sub.dry_run
                /\ sub' = [sub EXCEPT !.phase = "submitting"]
    /\ UNCHANGED <<dvars, orch, wait, pick, cancel, arg>>

\* What the loop does with the outcome of a submission (lines 687-694): the
\* ? returns an error from main, a job id is pushed, nothing is pushed for
\* Ok(None).
StopsNever(outcome) == FALSE
Stops(outcome) == IsErr(outcome)

\* Lines 686-697: one turn of the loop, the service answering with any of
\* its responses.
SubmitOne ==
    /\ sub.phase = "submitting"
    /\ sub.at <= Len(sub.args)
    /\ \E response \in Responses :
         LET j == submit_asvo_job(response)
         IN  sub' = IF Stops(j)
                    THEN [sub EXCEPT !.phase = "failed", !.sent = @ + 1, !.response = response,
                                     !.outcome = j, !.result = j]
                    ELSE IF IsErr(j)
                    THEN [sub EXCEPT !.at = @ + 1, !.sent = @ + 1, !.response = response,
                                     !.outcome = j]
                    ELSE IF j.value.some
                    THEN [sub EXCEPT !.at = @ + 1, !.sent = @ + 1, !.response = response,
                                     !.outcome = j, !.jobids = Append(@, j.value.v),
                                     !.submitted_count = @ + 1]
                    ELSE [sub EXCEPT !.at = @ + 1, !.sent = @ + 1, !.response = response,
                                     !.outcome = j]
    /\ UNCHANGED <<dvars, orch, wait, pick, cancel, arg>>

\* Lines 698-707: after the loop, without --wait, the command ends.
SubmitFinish ==
    /\ sub.phase = "submitting"
    /\ sub.at > Len(sub.args)
    /\ ~sub.wait
    /\ sub' = [sub EXCEPT !.phase = "done", !.result = Ok]
    /\ UNCHANGED <<dvars, orch, wait, pick, cancel, arg>>

\* The job list while the command waits: each job of the service queued,
\* ready or failed.
SubmitCatalogs == [WaitJobIds -> {"Queued", "Ready", "Error"}]

\* Lines 701-705: with --wait, wait_loop(&client, &jobids) is entered after
\* the loop.
StartWait ==
    /\ sub.phase = "submitting"
    /\ sub.at > Len(sub.args)
    /\ sub.wait
    /\ sub' = [sub EXCEPT !.phase = "waiting", !.waited = TRUE]
    /\ \E catalog \in SubmitCatalogs :
         wait' = [phase |-> "grace", jobids |-> sub.jobids, catalog |-> catalog,
                  jobs |-> NoSnapshot, last_state |-> NoSnapshot, logged |-> {},
                  fetches |-> 0, result |-> NoResult]
    /\ UNCHANGED <<dvars, orch, pick, cancel, arg>>

\* Line 704: the ? on what wait_loop returned.
EndWait ==
    /\ sub.phase = "waiting"
    /\ wait.phase = "done"
    /\ sub' = [sub EXCEPT !.phase = IF IsErr(wait.result) THEN "failed" ELSE "done",
                          !.result = wait.result]
    /\ UNCHANGED <<dvars, orch, wait, pick, cancel, arg>>

SubmitNext ==
    SubmitSetup \/ SubmitOne \/ SubmitFinish \/ StartWait \/ Grace \/ PollCycle
        \/ Sleep \/ EndWait

SpecSubmit == SubmitInit /\ [][SubmitNext]_vars

(***************************************************************************)
(* SpecPick: AsvoClient::download_obsid (mod.rs 169-213).  The job list is *)
(* fetched, the one Ready job of the obsid is looked for and, when there   *)
(* is exactly one, AsvoClient::download runs on it.                        *)
(***************************************************************************)
PickJobIds == JobId..(JobId + MaxListed - 1)
PickObsids == {ObsId, ObsId + 8}
PickStates == {"Queued", "Ready", "Error"}

\* The job lists of the account: some of the job ids, each with its obsid
\* and state; every job lists one file.
JobLists ==
    UNION {[S -> [obsid : PickObsids, state : PickStates]] : S \in SUBSET PickJobIds}

Listed(list, j) ==
    [jobid |-> j, obsid |-> list[j].obsid, state |-> list[j].state,
     files |-> [some |-> TRUE, list |-> <<PlainEntry(1)>>]]

ErrNoObsid(obsid) == [type |-> "NoObsid", obsid |-> obsid]
ErrNoJobReadyForObsid(obsid) == [type |-> "NoJobReadyForObsid", obsid |-> obsid]
ErrTooManyObsids(obsid) == [type |-> "TooManyObsids", obsid |-> obsid]

\* Lines 187-191: the jobs retained in all_ready_jobs.
all_ready_jobs(list, obsid) ==
    {j \in DOMAIN list : list[j].obsid = obsid /\ list[j].state = "Ready"}
\* Line 195: the jobs retained in all_jobs.
all_jobs(list, obsid) == {j \in DOMAIN list : list[j].obsid = obsid}

PickInputs ==
    {[phase |-> "fetch", obsid |-> ObsId, list |-> l, fetched |-> FALSE, chosen |-> 0,
      result |-> NoResult] : l \in JobLists}

PickInit ==
    /\ DownloadIdle
    /\ orch = OrchIdle
    /\ wait = WaitIdle
    /\ sub = SubIdle
    /\ pick \in PickInputs
    /\ cancel = CancelIdle
    /\ arg = ArgIdle

\* Lines 180-211: get_jobs and the match on the number of Ready jobs of the
\* obsid.
PickMatch ==
    /\ pick.phase = "fetch"
    /\ \/ /\ \E e \in GetJobsErrors :
               pick' = [pick EXCEPT !.phase = "done", !.result = e]
          /\ UNCHANGED job
       \/ LET ready == all_ready_jobs(pick.list, pick.obsid)
          IN  IF ready = {}
              THEN /\ pick' = [pick EXCEPT !.phase = "done", !.fetched = TRUE,
                                 !.result = IF all_jobs(pick.list, pick.obsid) = {}
                                            THEN ErrNoObsid(pick.obsid)
                                            ELSE ErrNoJobReadyForObsid(pick.obsid)]
                   /\ UNCHANGED job
              ELSE IF Cardinality(ready) = 1
              THEN LET j == CHOOSE r \in ready : TRUE
                   IN  /\ pick' = [pick EXCEPT !.phase = "download", !.fetched = TRUE,
                                                !.chosen = j]
                       /\ job' = Listed(pick.list, j)
              ELSE /\ pick' = [pick EXCEPT !.phase = "done", !.fetched = TRUE,
                                 !.result = ErrTooManyObsids(pick.obsid)]
                   /\ UNCHANGED job
    /\ UNCHANGED <<opts, disk, unpacked, moved, pc, idx, retries, elapsed, result,
                   retried, requested, last, calls, orch, wait, sub, cancel, arg>>

\* Lines 200-209: self.download on the job found.
PickDownload ==
    /\ pick.phase = "download"
    /\ Next

\* download_obsid returns what download returned.
PickReturn ==
    /\ pick.phase = "download"
    /\ pc = "done"
    /\ pick' = [pick EXCEPT !.phase = "done", !.result = result]
    /\ UNCHANGED <<dvars, orch, wait, sub, cancel, arg>>

PickNext == PickMatch \/ PickDownload \/ PickReturn

SpecPick == PickInit /\ [][PickNext]_vars

(***************************************************************************)
(* SpecCancel: the cancel command, main (Args::Cancel, giant-squid.rs      *)
(* 959-991) over AsvoClient::cancel_asvo_job (mod.rs 893-932).             *)
(***************************************************************************)
\* The arguments: job ids, and obsids, which the command parses and drops.
CancelArgs == UNION {[1..n -> {"jobid", "obsid"}] : n \in 0..MaxCancel}
\* The job id the argument at position i stands for.
CancelId(i) == JobId + i - 1

RECURSIVE JobIdsOf(_, _)
JobIdsOf(args, i) ==
    IF i > Len(args) THEN <<>>
    ELSE (IF args[i] = "jobid" THEN <<CancelId(i)>> ELSE <<>>) \o JobIdsOf(args, i + 1)

\* What the service answers to a cancellation: the request fails (fault
\* "send", no status), or a response with a status arrives, whose body the
\* client reads (fault "none") or cannot read to its end (fault "body").
CancelStatuses == {200, 204, 400, 404, 500}
CancelReplies ==
    {[fault |-> "send", status |-> 0]}
    \cup [fault : {"none", "body"}, status : CancelStatuses]

ErrBadStatusOf(code) == [type |-> "BadStatus", code |-> code]

\* mod.rs 893-932: send()?, the status, response.text()?, and only then the
\* branch on the status.
cancel_asvo_job(job_id, reply) ==
    IF reply.fault = "send" THEN ErrReqwest
    ELSE IF reply.fault = "body" THEN ErrReqwest
    ELSE IF reply.status = 200 THEN OkOf(Some(job_id))
    ELSE IF reply.status = 400 THEN OkOf(None)
    ELSE IF reply.status = 404 THEN OkOf(None)
    ELSE ErrBadStatusOf(reply.status)

CancelInputs ==
    {[phase |-> "args", args |-> a, dry_run |-> d, parsed_jobids |-> <<>>, at |-> 1,
      replies |-> <<>>, outcomes |-> <<>>, cancelled_count |-> 0, result |-> NoResult] :
        a \in CancelArgs, d \in BOOLEAN}

CancelInit ==
    /\ DownloadIdle
    /\ orch = OrchIdle
    /\ wait = WaitIdle
    /\ sub = SubIdle
    /\ pick = PickIdle
    /\ cancel \in CancelInputs
    /\ arg = ArgIdle

\* Lines 964-973: the job ids of the arguments, the dry run, the client.
CancelSetup ==
    /\ cancel.phase = "args"
    /\ LET ids == JobIdsOf(cancel.args, 1)
       IN  \/ /\ ids = <<>>
              /\ cancel' = [cancel EXCEPT !.phase = "failed", !.result = [type |-> "Bail"]]
           \/ /\ ids # <<>>
              /\ cancel.dry_run
              /\ cancel' = [cancel EXCEPT !.phase = "done", !.parsed_jobids = ids, !.result = Ok]
           \/ /\ ids # <<>>
              /\ ~cancel.dry_run
              /\ \/ \E e \in NewClientErrors :
                      cancel' = [cancel EXCEPT !.phase = "failed", !.parsed_jobids = ids,
                                               !.result = e]
                 \/ cancel' = [cancel EXCEPT !.phase = "cancelling", !.parsed_jobids = ids]
    /\ UNCHANGED <<dvars, orch, wait, sub, pick, arg>>

\* Lines 976-978: what ends the loop over the job ids: nothing does, an Err
\* is dropped.
EndsCancelling(outcome) == FALSE

\* Lines 976-988: one turn of the loop.
CancelOne ==
    /\ cancel.phase = "cancelling"
    /\ cancel.at <= Len(cancel.parsed_jobids)
    /\ \E reply \in CancelReplies :
         LET r == cancel_asvo_job(cancel.parsed_jobids[cancel.at], reply)
             counted == ~IsErr(r) /\ r.value.some
         IN  cancel' = [cancel EXCEPT
                          !.replies = Append(@, reply),
                          !.outcomes = Append(@, r),
                          !.cancelled_count = IF counted THEN @ + 1 ELSE @,
                          !.at = IF EndsCancelling(r) THEN @ ELSE @ + 1,
                          !.phase = IF EndsCancelling(r) THEN "failed" ELSE @,
                          !.result = IF EndsCancelling(r) THEN r ELSE @]
    /\ UNCHANGED <<dvars, orch, wait, sub, pick, arg>>

\* Line 989: the count is logged and the command ends.
CancelFinish ==
    /\ cancel.phase = "cancelling"
    /\ cancel.at > Len(cancel.parsed_jobids)
    /\ cancel' = [cancel EXCEPT !.phase = "done", !.result = Ok]
    /\ UNCHANGED <<dvars, orch, wait, sub, pick, arg>>

CancelNext == CancelSetup \/ CancelOne \/ CancelFinish

SpecCancel == CancelInit /\ [][CancelNext]_vars

(***************************************************************************)
(* SpecArg: one argument of the command line, parse_jobid_or_obsid         *)
(* (helpers.rs 25-39) over Obsid::validate (obsid.rs 20-27).               *)
(***************************************************************************)
\* A u64 in 16-bit limbs: hi * 2^32 + mid * 2^16 + lo, with hi below the
\* bound of the model.
U64(hi, mid, lo) == [hi |-> hi, mid |-> mid, lo |-> lo]
Less(a, b) ==
    \/ a.hi < b.hi
    \/ a.hi = b.hi /\ a.mid < b.mid
    \/ a.hi = b.hi /\ a.mid = b.mid /\ a.lo < b.lo

\* 1e9 as u64 and 1e10 as u64.
TenTo9 == U64(0, 15258, 51712)
TenTo10 == U64(2, 21515, 58368)

\* The arguments: text that is not an integer, and integers at and around
\* the two limits, JobId, ObsId and the numbers that differ from them by a
\* multiple of 2^32.
ArgNumbers ==
    {U64(hi, mid, lo) : hi \in 0..MaxHigh,
                        mid \in {0, 8, 15257, 15258, 20445, 21515, 21516},
                        lo \in {0, 12888, 51641, 51711, 51712, 58367, 58368}}
ArgInputs ==
    {[phase |-> "given", numeric |-> FALSE, n |-> U64(0, 0, 0), out |-> [kind |-> "none"]]}
    \cup {[phase |-> "given", numeric |-> TRUE, n |-> n, out |-> [kind |-> "none"]] :
            n \in ArgNumbers}

\* obsid.rs 20-27.
validate(o) == ~Less(o, TenTo9) /\ Less(o, TenTo10)

\* helpers.rs 34: i as AsvoJobID, the low 32 bits of the u64.
AsAsvoJobID(i) == U64(0, i.mid, i.lo)

\* helpers.rs 25-39.
parse_jobid_or_obsid(a) ==
    IF ~a.numeric THEN [kind |-> "None"]
    ELSE IF validate(a.n) THEN [kind |-> "O", v |-> a.n]
    ELSE [kind |-> "J", v |-> AsAsvoJobID(a.n)]

ArgInit ==
    /\ DownloadIdle
    /\ orch = OrchIdle
    /\ wait = WaitIdle
    /\ sub = SubIdle
    /\ pick = PickIdle
    /\ cancel = CancelIdle
    /\ arg \in ArgInputs

Classify ==
    /\ arg.phase = "given"
    /\ arg' = [arg EXCEPT !.phase = "parsed", !.out = parse_jobid_or_obsid(arg)]
    /\ UNCHANGED <<dvars, orch, wait, sub, pick, cancel>>

ArgNext == Classify

SpecArg == ArgInit /\ [][ArgNext]_vars

(***************************************************************************)
(* SpecWaitRaw: wait_loop over the job list as the service sends it: the   *)
(* job_state strings of the rows, which get_jobs decodes                   *)
(* (parse_asvo_json, DummyJob::convert_to_real_job) before the loop sees   *)
(* them.                                                                   *)
(***************************************************************************)
\* The job_state strings of the model: the thirteen the client has an arm
\* for, and one it has none for.
KnownStates ==
    {"queued", "waitcal", "staging", "staged", "downloading", "preprocessing",
     "preparing", "imaging", "delivering", "completed", "error", "expired",
     "cancelled"}
RawStates == KnownStates \cup {"paused"}

\* A row of the job list (DummyRow), as far as the state is decoded from
\* it: job_state, and error_text, which is null or a string.
RawRows == [job_state : RawStates, error_text : {None, Some("failed")}]

\* The job list: for each job id no row or one row.
RawCatalogs == [WaitJobIds -> {<<>>} \cup {<<row>> : row \in RawRows}]

\* asvo_serde.rs 91-106: the match on job_state; the arm of "error" unwraps
\* error_text and panics on None, the last arm panics.
job_state(row) ==
    LET s == row.job_state
    IN  CASE s = "queued" -> "Queued"
          [] s = "waitcal" -> "WaitCal"
          [] s = "staging" -> "Staging"
          [] s = "staged" -> "Staged"
          [] s = "downloading" -> "Downloading"
          [] s = "preprocessing" -> "Preprocessing"
          [] s = "preparing" -> "Preparing"
          [] s = "imaging" -> "Imaging"
          [] s = "delivering" -> "Delivering"
          [] s = "completed" -> "Ready"
          [] s = "error" -> IF row.error_text.some THEN "Error" ELSE "panic"
          [] s = "expired" -> "Expired"
          [] s = "cancelled" -> "Cancelled"
          [] OTHER -> "panic"

\* asvo_serde.rs 14-20: every row of the list is converted, the rows of the
\* jobs nobody asked for included.
parse_asvo_json(rows) ==
    IF \E j \in WaitJobIds : rows[j] # <<>> /\ job_state(rows[j][1]) = "panic"
    THEN [panicked |-> TRUE, jobs |-> NoSnapshot]
    ELSE [panicked |-> FALSE,
          jobs |-> [j \in WaitJobIds |->
                      IF rows[j] = <<>> THEN "absent" ELSE job_state(rows[j][1])]]

RawInputs ==
    [phase : {"grace"},
     jobids : UNION {[1..n -> WaitJobIds] : n \in 0..MaxWaitJobs},
     catalog : RawCatalogs,
     jobs : {NoSnapshot}, last_state : {NoSnapshot}, logged : {{}},
     fetches : {0}, result : {NoResult}]

RawInit ==
    /\ DownloadIdle
    /\ orch = OrchIdle
    /\ wait \in RawInputs
    /\ sub = SubIdle
    /\ pick = PickIdle
    /\ cancel = CancelIdle
    /\ arg = ArgIdle

\* Lines 451-498 of giant-squid.rs with mod.rs 112-128: one cycle: get_jobs
\* fails on the status, or panics in the conversion of a row, or gives the
\* jobs to the for loop.
RawCycle ==
    /\ wait.phase = "poll"
    /\ wait.fetches < MaxFetches
    /\ LET n == wait.fetches + 1
           parsed == parse_asvo_json(wait.catalog)
       IN  \/ \E e \in GetJobsErrors :
                wait' = [wait EXCEPT !.phase = "done", !.fetches = n, !.result = e]
           \/ /\ parsed.panicked
              /\ wait' = [wait EXCEPT !.phase = "done", !.fetches = n,
                                      !.result = Panic]
           \/ /\ ~parsed.panicked
              /\ LET s == Scan(wait.jobids, parsed.jobs, 1, wait.last_state, FALSE, {})
                 IN  wait' = [wait EXCEPT
                                !.fetches = n,
                                !.jobs = parsed.jobs,
                                !.last_state = s.last_state,
                                !.logged = s.logged,
                                !.phase = IF IsErr(s.res) \/ ~s.any_not_ready
                                          THEN "done" ELSE "sleep",
                                !.result = IF IsErr(s.res) THEN s.res
                                           ELSE IF s.any_not_ready THEN NoResult ELSE Ok]
    /\ UNCHANGED <<dvars, orch, sub, pick, cancel, arg>>

WaitRawNext == Grace \/ RawCycle \/ Sleep

SpecWaitRaw == RawInit /\ [][WaitRawNext]_vars

(***************************************************************************)
(* Properties of the download and of the transfer engine.                  *)
(***************************************************************************)
CloudIndexes == {i \in 1..Len(Files) : Files[i].type = "acacia"}

\* retry(..) ended for entry i with a transfer that verified the file: the
\* response was read to its end (and its digest matched when hash is set),
\* or the file on disk was found complete with the manifest's hash.
Validated(i) ==
    /\ retried[i].res = Ok
    /\ retried[i].note \in {"streamed", "already_complete"}

\* C2: download returns success only if the transfer of every cloud entry of
\* the manifest ended with the complete stream received and drained and,
\* with hash verification, the digest matching the manifest hash.  Stated
\* for downloads that may resume, where no file is skipped.
C2_SuccessOnlyIfValidated ==
    (result = Ok /\ ~opts.no_resume) => \A i \in CloudIndexes : Validated(i)

\* C3: when the backoff budget is exhausted on a transient error, that last
\* error is the file's outcome: download returns it and does not go on.
C3_ExhaustedErrorIsReturned ==
    (IsErr(last.res) /\ last.res.type # "IO" /\ last.cycle >= MaxRetries)
        => (pc = "done" /\ result = last.res)

\* C4: an attempt that fails with a local disk/filesystem IO error is
\* permanent: download returns that error at once, with no further attempt
\* and no backoff cycle consumed.
C4_DiskErrorIsPermanent ==
    (IsErr(last.res) /\ last.res.cause = "disk")
        => (pc = "done" /\ result = last.res /\ retries = last.cycle)

C4_Witness ==
    /\ pc = "done"
    /\ result = ErrIO("disk")
    /\ last.res = ErrIO("disk")
    /\ last.sent
    /\ last.cycle = 0
    /\ disk[last.url].data # last.before.data

\* C5: an attempt that fails with an error whose cause is not local disk IO
\* is transient: while backoff budget remains it consumes one cycle and the
\* same file is attempted again.
C5_OtherErrorsAreTransient ==
    (IsErr(last.res) /\ last.res.cause # "disk" /\ last.cycle < MaxRetries)
        => (pc = "retry" /\ idx = last.idx /\ retries = last.cycle + 1)

\* C6: with verification requested, a digest that differs from the manifest
\* hash is a hard failure of the file: the HashMismatch error, with the job
\* id, the file, the expected and the computed hash, is the file's outcome
\* and what download returns, and the file stays on disk.
C6_HashMismatchIsOutcome ==
    \A i \in CloudIndexes :
        retried[i].res.type = "HashMismatch"
            => /\ result = retried[i].res
               /\ pc = "done"
               /\ disk[Files[i].url].exists

\* C7: resume correctness.  In the archive-preserving path with resume
\* allowed, a transfer that starts from a partial file (the first L bytes
\* of the object, 0 < L < declared size) and succeeds leaves a file of the
\* declared size whose hash is the manifest hash.
C7_ResumeLeavesCompleteFile ==
    (/\ last.url # 0
     /\ opts.keep_tar /\ ~opts.no_resume
     /\ last.before.exists
     /\ Len(last.before.data) \in 1..(FileSize - 1)
     /\ last.before.data = Prefix(Content(last.url), Len(last.before.data))
     /\ last.res = Ok)
        => /\ Len(disk[last.url].data) = FileSize
           /\ check_file_sha1_hash(disk[last.url].data, Files[last.idx].sha1)

\* The destination file found before the last invocation has the declared
\* size and the hash of the manifest.
FoundComplete ==
    /\ last.url # 0
    /\ last.before.exists
    /\ Len(last.before.data) = FileSize
    /\ check_file_sha1_hash(last.before.data, Files[last.idx].sha1)

\* C8: idempotence.  In the archive-preserving path, every invocation that
\* finds the destination file with the declared size and the manifest's
\* hash returns success, sends no file request and leaves the file as it
\* is; so does every invocation after it.
C8_CompleteFileShortCircuits ==
    (opts.keep_tar /\ FoundComplete)
        => /\ last.res = Ok
           /\ ~last.sent
           /\ disk[last.url] = last.before

\* The destination file found before the last invocation is one --no-resume
\* is about: partial, or of the declared size with another hash than the
\* manifest's.
FoundUnfinished ==
    /\ last.url # 0
    /\ last.before.exists
    /\ \/ Len(last.before.data) < FileSize
       \/ /\ Len(last.before.data) = FileSize
          /\ Files[last.idx].sha1.some
          /\ ~check_file_sha1_hash(last.before.data, Files[last.idx].sha1)

\* C9 as stated: with --no-resume, whichever the path, an existing
\* destination file that is partial, or has the declared size and another
\* hash, is left alone: no file request, the file unchanged, and Ok.
C9_Original ==
    (opts.no_resume /\ FoundUnfinished)
        => /\ last.res = Ok
           /\ ~last.sent
           /\ disk[last.url] = last.before

\* What an invocation in the archive-preserving path returns before it has
\* examined the destination file, if it fails that early: the parse error of
\* GIANT_SQUID_BUF_SIZE, the panic of the overflowing buffer size or of the
\* entry without a hash, the IO error of the file that cannot be opened;
\* NoResult if it does not.
FailsEarly ==
    LET buffer == buffer_size(opts.buf_size, opts.overflow_checks)
    IN  IF buffer.res = "parse" THEN ErrParse
        ELSE IF buffer.res = "panic" \/ ~Files[last.idx].sha1.some THEN Panic
        ELSE IF ~last.opened THEN ErrIO("disk")
        ELSE NoResult

\* C9: with --no-resume, in the archive-preserving path, an existing file
\* that is partial, or has the declared size and another hash, is left
\* alone: no file request and the file unchanged, whatever the invocation
\* meets; it returns Ok (a logged skip) unless it fails before it has
\* examined the file, and then it returns that failure.
C9_NoResumeLeavesFileAlone ==
    (opts.keep_tar /\ opts.no_resume /\ FoundUnfinished)
        => /\ ~last.sent
           /\ disk[last.url] = last.before
           /\ IF FailsEarly = NoResult
              THEN /\ last.res = Ok
                   /\ last.note \in {"partial_no_resume", "mismatch_no_resume"}
              ELSE last.res = FailsEarly

C9_Witness ==
    /\ opts.keep_tar /\ opts.no_resume
    /\ calls = MaxCalls
    /\ last.before.exists
    /\ Len(last.before.data) = 1
    /\ last.note = "partial_no_resume"
    /\ requested = {}

(***************************************************************************)
(* Properties of the download command.                                     *)
(***************************************************************************)
Downloads == {i \in DOMAIN orch.status : TRUE}
Panicked == \E j \in Downloads : orch.status[j] = "panic"

\* C1: every id of the download command is attempted to completion even if
\* other downloads return errors: a download is dropped, and the command
\* abandoned, only after a worker has panicked, never after an error; and
\* when the command is done each of the n downloads has ended in Ok or in
\* an error, the k errors are the ones reported, job ids first, and the
\* other n-k downloads have completed.
C1_AllAttemptedAllReported ==
    /\ (\E i \in Downloads : orch.status[i] = "skipped") => Panicked
    /\ orch.phase = "panicked" => Panicked
    /\ (orch.phase = "done" /\ ~orch.dry_run) =>
          /\ Downloads = DOMAIN orch.args
          /\ \A i \in Downloads : orch.status[i] \in {"ok", "err"}
          /\ Len(orch.reported) = Cardinality({i \in Downloads : orch.status[i] = "err"})
          /\ \A i \in Downloads :
                orch.status[i] = "err" <=> \E k \in DOMAIN orch.reported : orch.reported[k] = i

C1_Witness ==
    /\ orch.phase = "done"
    /\ orch.args = <<"obsid", "jobid", "jobid">>
    /\ orch.status = <<"ok", "err", "ok">>
    /\ orch.reported = <<2>>

(***************************************************************************)
(* Properties of the wait.                                                 *)
(***************************************************************************)
Requested == {wait.jobids[i] : i \in DOMAIN wait.jobids}
TerminalFailures == {"Error", "Expired", "Cancelled"}
\* The requested ids that the catalog fetched last shows as failed for good.
FailedJobs == {j \in Requested : wait.jobs[j] \in TerminalFailures}
\* The first requested id, in the order given, that the catalog fetched
\* last does not list or shows as failed for good.
FirstStopper ==
    LET stops == {i \in DOMAIN wait.jobids :
                     wait.jobs[wait.jobids[i]] \in TerminalFailures \cup {"absent"}}
    IN  wait.jobids[CHOOSE i \in stops : \A k \in stops : i <= k]

\* C10 as stated: in a cycle whose catalog shows a requested job in Error,
\* Expired or Cancelled, the wait ends in that cycle with an error for a
\* job in one of these states, and fetches no more.
C10_Original ==
    FailedJobs # {} =>
        /\ wait.phase = "done"
        /\ IsErr(wait.result)
        /\ wait.result.jobid \in FailedJobs

\* C10: in a cycle whose catalog shows a requested job in Error, Expired or
\* Cancelled, the wait ends in that cycle, without another fetch, with the
\* error of the first requested id, in the order given, that the catalog
\* does not list or shows in one of these states; when the catalog lists
\* every requested id, that is an error for a job in Error, Expired or
\* Cancelled, whatever the states of the other ids.
C10_FailsInSameCycle ==
    FailedJobs # {} =>
        /\ wait.phase = "done"
        /\ IsErr(wait.result)
        /\ wait.result.jobid = FirstStopper
        /\ wait.jobs[FirstStopper] = "absent" => wait.result = ErrNoAsvoJob(FirstStopper)
        /\ wait.jobs[FirstStopper] # "absent" =>
              wait.result = FailureOf(FirstStopper, wait.jobs[FirstStopper])
        /\ (\A j \in Requested : wait.jobs[j] # "absent") => wait.result.jobid \in FailedJobs

C10_Witness ==
    /\ wait.phase = "done"
    /\ wait.fetches = 2
    /\ wait.jobids = <<JobId, JobId + 1>>
    /\ wait.jobs[JobId] = "Ready"
    /\ wait.jobs[JobId + 1] = "Cancelled"
    /\ wait.last_state[JobId + 1] = "Processing"
    /\ wait.result = ErrCancelled(JobId + 1)

\* C11: the wait returns success only when the catalog fetched last lists
\* every requested job id and shows it Ready.
C11_SuccessOnlyIfAllReady ==
    wait.result = Ok =>
        /\ wait.phase = "done"
        /\ wait.fetches >= 1
        /\ \A j \in Requested : wait.jobs[j] = "Ready"

C11_Witness ==
    /\ wait.result = Ok
    /\ wait.fetches = MaxFetches
    /\ wait.jobids = <<JobId + 1, JobId>>
    /\ wait.jobs = [j \in WaitJobIds |-> "Ready"]

\* The requested ids that the catalog fetched last does not list.
AbsentJobs == {j \in Requested : wait.jobs[j] = "absent"}

\* C12 as stated: in a cycle whose catalog does not list a requested id, the
\* wait ends in that cycle with the unknown-job error naming such an id.
C12_Original ==
    AbsentJobs # {} =>
        /\ wait.phase = "done"
        /\ wait.result.type = "NoAsvoJob"
        /\ wait.result.jobid \in AbsentJobs

\* C12: in a cycle whose catalog does not list a requested id, the wait ends
\* in that cycle, without a sleep or another fetch, with an error; when no
\* requested id given before the first unlisted one is in Error, Expired or
\* Cancelled, the error is the unknown-job error naming the first unlisted
\* id; else it is the error of the first such failed job.
C12_AbsentFailsInSameCycle ==
    AbsentJobs # {} =>
        /\ wait.phase = "done"
        /\ IsErr(wait.result)
        /\ wait.result.jobid = FirstStopper
        /\ IF FirstStopper \in AbsentJobs
           THEN wait.result = ErrNoAsvoJob(FirstStopper)
           ELSE wait.result.type \in {"UpstreamError", "Expired", "Cancelled"}
        /\ FailedJobs = {} => wait.result.type = "NoAsvoJob"

C12_Witness ==
    /\ wait.phase = "done"
    /\ wait.fetches = 1
    /\ wait.jobids = <<JobId, JobId + 1>>
    /\ wait.jobs[JobId] = "Queued"
    /\ wait.jobs[JobId + 1] = "absent"
    /\ wait.result = ErrNoAsvoJob(JobId + 1)

FetchesSucceed == [](wait.result \notin GetJobsErrors)
AllReady == \A j \in Requested : wait.catalog[j] = "Ready"
SomeFailed == \E j \in Requested : wait.catalog[j] \in TerminalFailures
AllTerminal == \A j \in Requested : wait.catalog[j] \in TerminalFailures \cup {"Ready"}

\* C13: provided the catalog fetches succeed: if every requested job is
\* Ready from some time on, the wait eventually returns success; if some
\* requested job is in Error, Expired or Cancelled while the wait runs, the
\* wait eventually returns an error; and whenever every requested job is in
\* a terminal state, the wait eventually returns.
C13_WaitTerminates ==
    /\ (FetchesSucceed /\ <>[]AllReady) => <>(wait.result = Ok)
    /\ (FetchesSucceed /\ <>SomeFailed) => <>(wait.phase = "done" /\ IsErr(wait.result))
    /\ FetchesSucceed => [](AllTerminal => <>(wait.phase = "done"))

C13_Witness ==
    /\ wait.phase = "done"
    /\ wait.result = Ok
    /\ wait.fetches = 1
    /\ wait.jobids = <<JobId>>
    /\ wait.last_state[JobId] = "Ready"
    /\ wait.catalog[JobId + 1] = "Processing"

\* C14: every error the wait returns for a job in Error, Expired or
\* Cancelled carries the job's id and its obsid, and for Error also the
\* error text of the catalog.
C14_FailureNamesJobAndObsid ==
    wait.result.type \in {"UpstreamError", "Expired", "Cancelled"} =>
        /\ wait.result.jobid \in FailedJobs
        /\ "obsid" \in DOMAIN wait.result
        /\ wait.result.obsid = ObsidOf(wait.result.jobid)
        /\ wait.result.type = "UpstreamError" =>
              wait.result.error = ErrorText(wait.result.jobid)

(***************************************************************************)
(* Properties of the submission interpreter and of the submit command.     *)
(***************************************************************************)
\* The last submission of the command: a response arrived and was
\* interpreted.
Answered == sub.sent > 0 /\ sub.response.fault = "none"
Present(field) == field.kind # "absent"
IsNewJob(outcome) == outcome.type = "Ok" /\ outcome.value.some
IsFatalRejection(outcome) == outcome.type = "BadRequest"

\* C15: a response body containing all of error, error_code and job_id is
\* interpreted as the first shape: a duplicate when the code is 2, a fatal
\* rejection carrying the code and the message otherwise, and never as a
\* new job.
C15_AllThreeKeysIsFirstShape ==
    LET body == sub.response.body
    IN  /\ (Answered /\ Has(body.error) /\ Has(body.error_code) /\ Has(body.job_id))
              => sub.outcome = IF body.error_code.v = 2
                               THEN OkOf(None)
                               ELSE ErrBadRequest(body.error_code.v, body.error.v)
        /\ (Answered /\ Present(body.error) /\ Present(body.error_code) /\ Present(body.job_id))
              => ~IsNewJob(sub.outcome)

\* C16: a body with only job_id is a new job with that id, a body with only
\* error is a fatal rejection with the non-specific code 999, and a body
\* that matches none of the four shapes (it has neither a job_id nor an
\* error the shapes can take) is a decode error, never an outcome.
C16_KnownShapesOrDecodeError ==
    LET body == sub.response.body
    IN  /\ (Answered /\ Has(body.job_id) /\ ~Present(body.error) /\ ~Present(body.error_code))
              => sub.outcome = [type |-> "Ok", value |-> [some |-> TRUE, v |-> body.job_id.v]]
        /\ (Answered /\ Has(body.error) /\ ~Present(body.error_code) /\ ~Present(body.job_id))
              => sub.outcome = [type |-> "BadRequest", code |-> 999, message |-> body.error.v]
        /\ (Answered /\ ~Has(body.job_id) /\ ~Has(body.error))
              => /\ sub.outcome = [type |-> "BadJson"]
                 /\ sub.phase = "failed"
                 /\ sub.result = sub.outcome

\* A body with an error_code and nothing else was answered with the decode
\* error.
C16_Witness ==
    /\ Answered
    /\ Has(sub.response.body.error_code)
    /\ ~Present(sub.response.body.error)
    /\ ~Present(sub.response.body.job_id)
    /\ sub.outcome = [type |-> "BadJson"]

\* The messages of the model that the service sends for an observation
\* without files and for an observation that does not exist.
RecoverableMessages ==
    {<<"Unable to submit job. Observation", " 1339896408 has no files">>,
     <<"Observation ", "1339896408", " does not exist">>}

\* C17 as stated: a response with error_code and error but no job_id is a
\* recoverable rejection when the code is 0 and the message is one of the
\* recoverable ones, and otherwise a fatal rejection carrying the code and
\* the message of the response.
C17_Original ==
    LET body == sub.response.body
    IN  (Answered /\ Present(body.error_code) /\ Present(body.error) /\ ~Present(body.job_id))
            => IF Has(body.error_code) /\ Has(body.error)
                  /\ body.error_code.v = 0 /\ body.error.v \in RecoverableMessages
               THEN sub.outcome = [type |-> "Ok", value |-> [some |-> FALSE]]
               ELSE /\ Has(body.error_code)
                    /\ Has(body.error)
                    /\ sub.outcome = [type |-> "BadRequest", code |-> body.error_code.v,
                                      message |-> body.error.v]

\* C17: a response whose error_code is an unsigned integer and whose error
\* is a string, without a job id, is a recoverable rejection (no job, no
\* error) exactly when the code is 0 and the message is one of the
\* recoverable ones; for every other code or message, the outage message
\* with code 0 included, it is a fatal rejection carrying that code and
\* message.  When the error_code is there but is not an unsigned integer,
\* the rejection is fatal with the non-specific code 999; when the error is
\* there but is not a string, the response is a decode error.
C17_RecoverableExactlyForCodeZero ==
    LET body == sub.response.body
    IN  /\ (Answered /\ Has(body.error_code) /\ Has(body.error) /\ ~Has(body.job_id))
              => sub.outcome =
                    IF body.error_code.v = 0 /\ body.error.v \in RecoverableMessages
                    THEN [type |-> "Ok", value |-> [some |-> FALSE]]
                    ELSE [type |-> "BadRequest", code |-> body.error_code.v,
                          message |-> body.error.v]
        /\ (Answered /\ body.error_code = Wrong /\ Has(body.error) /\ ~Has(body.job_id))
              => sub.outcome = [type |-> "BadRequest", code |-> 999, message |-> body.error.v]
        /\ (Answered /\ Present(body.error_code) /\ body.error = Wrong /\ ~Has(body.job_id))
              => sub.outcome = [type |-> "BadJson"]

\* The outage message came with code 0 and no job id, and the submission
\* failed with that code and message.
C17_Witness ==
    /\ Answered
    /\ sub.response.body.error_code = Val(0)
    /\ sub.response.body.error =
          Val(<<"Your job cannot be submitted as there is a full outage in progress.">>)
    /\ ~Present(sub.response.body.job_id)
    /\ sub.phase = "failed"
    /\ sub.result = [type |-> "BadRequest", code |-> 0,
                     message |-> <<"Your job cannot be submitted as there is a full outage in progress.">>]

\* C18: a fatal rejection for one obsid ends the batch: main returns that
\* error, no request is sent for a later obsid and the wait is not entered;
\* after a duplicate or a recoverable rejection no job id is added and the
\* batch goes on with the next obsid.
C18_FatalRejectionAbortsBatch ==
    /\ [](IsFatalRejection(sub.outcome)
             => /\ sub.phase = "failed"
                /\ sub.result = sub.outcome
                /\ sub.sent = sub.at
                /\ ~sub.waited)
    /\ [][IsFatalRejection(sub.outcome)
             => /\ sub'.sent = sub.sent
                /\ sub'.jobids = sub.jobids
                /\ ~sub'.waited]_vars
    /\ [][(sub'.sent = sub.sent + 1 /\ sub'.outcome = [type |-> "Ok", value |-> [some |-> FALSE]])
             => /\ sub'.jobids = sub.jobids
                /\ sub'.submitted_count = sub.submitted_count
                /\ sub'.phase = "submitting"
                /\ sub'.at = sub.at + 1]_vars

\* Of three obsids with a wait asked for, the first was a duplicate and the
\* second was rejected: two requests were sent, no job id was kept and the
\* command failed without waiting.
C18_Witness ==
    /\ Len(sub.args) = 3
    /\ sub.wait
    /\ sub.sent = 2
    /\ sub.at = 2
    /\ sub.jobids = <<>>
    /\ IsFatalRejection(sub.outcome)
    /\ sub.phase = "failed"
    /\ ~sub.waited

(***************************************************************************)
(* Properties of the download by obsid.                                    *)
(***************************************************************************)
\* The jobs of the fetched list that are for the obsid asked for.
JobsOfObsid == {j \in DOMAIN pick.list : pick.list[j].obsid = pick.obsid}

\* C19: when the fetched job list holds more than one job for the obsid,
\* the download by obsid fails with the ambiguity error, also when only one
\* of those jobs is Ready, and no file is transferred.
C19_SeveralJobsIsAmbiguity ==
    (pick.phase \in {"download", "done"} /\ pick.fetched /\ Cardinality(JobsOfObsid) > 1)
        => /\ requested = {}
           /\ \A u \in Urls : ~disk[u].exists
           /\ pick.phase = "done"
           /\ pick.result = [type |-> "TooManyObsids", obsid |-> pick.obsid]

(***************************************************************************)
(* Properties of the concurrency of the download command.                  *)
(***************************************************************************)
\* The limit --concurrent-downloads asks for.
Limit == IF orch.concurrent_downloads = 0 THEN NumCpus ELSE orch.concurrent_downloads

\* C20: at every moment at most N downloads are in progress, N being the
\* value of --concurrent-downloads and the parallelism of the machine when
\* that value is 0; a download starts only while fewer than N are running,
\* so with N running one of them has to finish first.
C20_AtMostNDownloadsRunning ==
    /\ [](orch.phase # "idle" => Cardinality(Running) <= Limit)
    /\ [][(\E i \in DOMAIN orch'.status :
              /\ orch'.status[i] = "running"
              /\ i \in DOMAIN orch.status
              /\ orch.status[i] # "running")
             => Cardinality(Running) < Limit]_vars

\* With --concurrent-downloads 0, as many downloads run as the machine has
\* cores and one more of the group is waiting for a thread.
C20_Witness ==
    /\ orch.phase \in {"jobids", "obsids"}
    /\ orch.concurrent_downloads = 0
    /\ Cardinality(Running) = NumCpus
    /\ \E i \in Group(orch.phase) : orch.status[i] = "pending"

\* The downloads of the batch that ended in the set-up every download
\* needs: the authentication or the fetch of the job list.
SetupFailed == {i \in DOMAIN orch.at : orch.at[i] \in {"auth", "catalog"}}

\* C21: once the authentication or the fetch of the job list has failed,
\* the batch is over: no further download of the batch starts and no
\* download gets to its job and its files.
C21_SetupErrorAbortsBatch ==
    [][SetupFailed # {}
          => \A j \in DOMAIN orch.status :
                /\ orch.status[j] = "pending" => orch'.status[j] # "running"
                /\ orch.at[j] = "none" => orch'.at[j] # "job"]_vars

(***************************************************************************)
(* Properties of the job's download: its state, its manifest, its files.   *)
(***************************************************************************)
\* C22: files are transferred only for a Ready job: for a job in another
\* state download returns the not-ready error with the job id and the
\* state, no request for a file is sent and nothing on the disk is created,
\* changed or moved.
C22_OnlyReadyIsTransferred ==
    /\ [](job.state # "Ready"
            => /\ requested = {}
               /\ calls = 0
               /\ last = NoAttempt
               /\ moved = {}
               /\ \A u \in Urls : ~unpacked[u].exists
               /\ pc = "done" => result = [type |-> "NotReady", jobid |-> job.jobid,
                                           state |-> job.state])
    /\ [][job.state # "Ready" => (disk' = disk /\ pc' = "done")]_vars

\* The download of a Queued job returned the not-ready error and the file
\* an earlier run left is as it was.
C22_Witness ==
    /\ job.state = "Queued"
    /\ pc = "done"
    /\ result = [type |-> "NotReady", jobid |-> JobId, state |-> "Queued"]
    /\ disk[1] = FileOf(Prefix(Content(1), 1))

\* The entry of the manifest the download is at, or stopped at.
AtEntry == idx \in 1..Len(Files)
LacksLocator(f) ==
    \/ f.type = "acacia" /\ f.url = 0
    \/ f.type = "scratch" /\ f.path = "none"

\* C23: an entry without a usable locator or without a hash gives an error
\* value as the outcome of the job: the download returns it for that entry
\* without a retry, and the process does not panic.
C23_ManifestErrorIsAValue ==
    /\ (pc = "done" /\ job.state = "Ready" /\ AtEntry /\ LacksLocator(Files[idx]))
          => /\ result \in {[type |-> "NoUrl", job_id |-> job.jobid],
                            [type |-> "NoPath", job_id |-> job.jobid]}
             /\ last.idx # idx
             /\ retried[idx] = NotRetried
    /\ (last.idx \in 1..Len(Files) /\ ~Files[last.idx].sha1.some)
          => /\ last.res # Panic
             /\ IsErr(last.res)
             /\ last.cycle = 0
             /\ pc = "done" /\ result = last.res

\* The scratch entries of the manifest the download has gone past.
PassedScratch(path) ==
    {i \in 1..Len(Files) :
        /\ Files[i].type = "scratch" /\ Files[i].path = path
        /\ i < idx \/ (i = idx /\ pc = "done" /\ result.type = "IO" /\ path = "here")}

\* C24: a scratch entry whose path exists on this host has its directory
\* moved into the download directory, unless the move fails; one whose path
\* does not exist gives no error, and the download can still return Ok.
C24_ScratchIsMovedIntoDownloadDir ==
    /\ \A m \in moved : m.into = opts.download_dir
    /\ \A i \in PassedScratch("here") :
          \/ \E m \in moved : m.idx = i
          \/ i = idx /\ pc = "done" /\ result.type = "IO"
    /\ \A i \in PassedScratch("away") : ~(\E m \in moved : m.idx = i)
    /\ ~(pc = "done" /\ AtEntry /\ Files[idx].type = "scratch" /\ Files[idx].path = "away")
    /\ (pc = "done" /\ result = Ok)
          => \A i \in 1..Len(Files) : Files[i].type = "scratch" => i \in PassedScratch(Files[i].path)

(***************************************************************************)
(* Properties of the cancel command.                                       *)
(***************************************************************************)
\* The responses of the service so far that had status 200.
Cancelled == {k \in DOMAIN cancel.replies : cancel.replies[k].status = 200}

\* C25: a cancellation returns the job id on status 200, nothing and no
\* error on status 400 or 404, and an error on any other status; no reply
\* stops the command from asking for the remaining job ids, and the count
\* the command reports is the number of replies with status 200.
C25_CancelByStatus ==
    /\ \A k \in DOMAIN cancel.replies :
          LET reply == cancel.replies[k]
              outcome == cancel.outcomes[k]
          IN  /\ reply.status = 200
                    => outcome = [type |-> "Ok", value |-> [some |-> TRUE, v |-> cancel.parsed_jobids[k]]]
              /\ reply.status \in {400, 404}
                    => outcome = [type |-> "Ok", value |-> [some |-> FALSE]]
              /\ reply.status \notin {200, 400, 404} => IsErr(outcome)
    /\ cancel.replies # <<>> => cancel.phase \in {"cancelling", "done"}
    /\ cancel.cancelled_count = Cardinality(Cancelled)
    /\ (cancel.phase = "done" /\ ~cancel.dry_run)
          => Len(cancel.replies) = Len(cancel.parsed_jobids)

(***************************************************************************)
(* Properties of the classification of an argument.                        *)
(***************************************************************************)
TenDigits(n) == ~Less(n, U64(0, 15258, 51712)) /\ Less(n, U64(2, 21515, 58368))

\* C26: an integer argument n is an obsid exactly when 10^9 <= n < 10^10
\* and is the job id n in every other case, so that no job id the program
\* works with is a number it accepts as an obsid.
C26_TenDigitsIsObsid ==
    (arg.phase = "parsed" /\ arg.numeric)
        => /\ arg.out.kind = (IF TenDigits(arg.n) THEN "O" ELSE "J")
           /\ arg.out.v = arg.n
           /\ arg.out.kind = "J" => ~TenDigits(arg.out.v)

(***************************************************************************)
(* Properties of resumed and restarted transfers.                          *)
(***************************************************************************)
\* The attempt recorded last found a destination file of length L that it
\* could open, in the archive-preserving path with resume allowed, for an
\* entry with a hash.
ResumableAt(L) ==
    /\ last.url # 0
    /\ opts.keep_tar /\ ~opts.no_resume
    /\ Files[last.idx].sha1.some
    /\ last.opened
    /\ last.before.exists
    /\ Len(last.before.data) = L

\* C27: in the archive-preserving path with resume allowed, an attempt that
\* finds a file of the declared size with another hash truncates it and
\* starts again from byte zero: its request asks for the object from offset
\* 0, and when it succeeds the file holds the declared number of bytes.
C27_MismatchRestartsFromZero ==
    (/\ ResumableAt(FileSize)
     /\ ~check_file_sha1_hash(last.before.data, Files[last.idx].sha1))
        => /\ last.sent /\ last.first = 0
           /\ last.res = Ok => Len(disk[last.url].data) = FileSize

\* C28: in the archive-preserving path with resume allowed, an attempt that
\* finds a file of length L other than the declared size issues one ranged
\* GET for the bytes L to declared size - 1 and appends the response body
\* after the L bytes, which it does not rewrite.
C28_ResumeAsksForTheMissingBytes ==
    \A L \in (0..(FileSize + 1)) \ {FileSize} :
        ResumableAt(L)
            => /\ last.sent
               /\ last.range.first = L
               /\ last.range.last = FileSize - 1
               /\ Prefix(disk[last.url].data, L) = last.before.data

\* C29: in the archive-preserving and in the extraction path, when the
\* digest is finalised the hash accumulator has taken every byte of the
\* response, the bytes the decoder did not read included.
C29_DigestCoversWholeResponse ==
    last.note = "streamed" => last.left = <<>>

\* The decoder's output is that of the object, and the digest is rejected
\* for the byte of the response the decoder did not read.
C29_Witness ==
    /\ ~opts.keep_tar /\ opts.hash
    /\ last.note = "streamed"
    /\ last.res.type = "HashMismatch"
    /\ unpacked[last.url] = FileOf(Prefix(Content(last.url), FileSize - 1))
    /\ last.left = <<>>

(***************************************************************************)
(* Properties of the order of the transfers of one job.                    *)
(***************************************************************************)
\* C30: the files of a job are transferred one at a time in manifest order:
\* an attempt is made for the entry the loop is at, never for an earlier
\* one; the retry of every cloud entry before it has returned, its own has
\* not, and no request has been issued for an entry after it.
C30_OneFileAtATimeInOrder ==
    [][last' # last
         => /\ last'.idx = idx /\ idx' = idx
            /\ last'.idx >= last.idx
            /\ retried[idx] = NotRetried
            /\ \A i \in 1..(idx - 1) :
                 (Files[i].type = "acacia" /\ Files[i].url # 0) => retried[i] # NotRetried
            /\ \A j \in (idx + 1)..Len(Files) : Files[j].url \notin requested']_vars

\* Two files: the first transferred at its second attempt, then the second
\* at its second attempt, and the download has returned Ok.
C30_Witness ==
    /\ pc = "done" /\ result = Ok
    /\ Len(Files) = 2
    /\ retried[1] = [res |-> Ok, note |-> "streamed"]
    /\ retried[2] = [res |-> Ok, note |-> "streamed"]
    /\ last.idx = 2 /\ last.cycle = 1 /\ last.sent
    /\ requested = {Files[1].url, Files[2].url}
    /\ disk[Files[1].url].exists

(***************************************************************************)
(* Properties of the wait over the job list as the service sends it.       *)
(***************************************************************************)
\* The rows whose job_state the client has no arm for.
Unknown ==
    {j \in WaitJobIds :
        wait.catalog[j] # <<>> /\ wait.catalog[j][1].job_state \notin KnownStates}

\* C31: a job state the client does not know is treated as not yet ready:
\* no fetch of a list holding one ends in a crash, and unless the list
\* cannot be fetched or another requested job ends the wait with its error,
\* a requested id in such a state leaves the wait polling.
C31_UnknownStateIsNotYetReady ==
    (wait.fetches > 0 /\ Unknown # {})
        => /\ wait.result # Panic
           /\ (\E i \in DOMAIN wait.jobids : wait.jobids[i] \in Unknown)
                 => (wait.result # Ok /\ (wait.phase = "done" => IsErr(wait.result)))

(***************************************************************************)
(* Properties of the state lines of the wait.                              *)
(***************************************************************************)
\* C32: a cycle logs the state of an id exactly when the loop reaches the
\* id and has no state remembered for it (the first cycle that observes it)
\* or remembers another state from the cycle before; a cycle in which no
\* requested id changed state logs nothing.
C32_LogsOnlyChanges ==
    [][(wait'.fetches # wait.fetches /\ wait'.result \notin GetJobsErrors)
          => wait'.logged = {j \in WaitJobIds : wait'.last_state[j] # wait.last_state[j]}]_vars

\* The second cycle over two ids of which the first has moved on since the
\* first cycle: only that one is logged.
C32_Witness ==
    /\ wait.phase = "sleep"
    /\ wait.fetches = 2
    /\ Len(wait.jobids) = 2
    /\ wait.jobids[1] # wait.jobids[2]
    /\ wait.jobs[wait.jobids[1]] = "Processing"
    /\ wait.jobs[wait.jobids[2]] = "Queued"
    /\ wait.logged = {wait.jobids[1]}

(***************************************************************************)
(* Properties of what the archive-preserving path writes.                  *)
(***************************************************************************)
\* The bytes of s that are bytes of an error document: the body of a 403 or
\* 416 response; no object and no file of an earlier run has such a byte.
ErrorBytes(s) == {i \in DOMAIN s : \E k \in DOMAIN ErrDoc : s[i] = ErrDoc[k]}

\* C33: in the archive-preserving path the destination file receives bytes
\* only from a response with a success status: no byte of the body of an
\* error response is ever written or appended to it.
C33_ErrorBodyNeverWritten ==
    opts.keep_tar => \A u \in Urls : ErrorBytes(disk[u].data) = {}

\* C34: with verification requested, the attempt that completes a resumed
\* transfer (L bytes on disk before it, 0 < L < declared size) compares the
\* manifest hash with the digest of the whole destination file: when the
\* file it leaves is the object, the attempt succeeds.
C34_ResumeVerifiesWholeFile ==
    \A L \in 1..(FileSize - 1) :
        (/\ ResumableAt(L)
         /\ opts.hash
         /\ last.note = "streamed"
         /\ disk[last.url].data = Content(last.url))
            => last.res = Ok

(***************************************************************************)
(* Properties of a permanent failure within a job.                         *)
(***************************************************************************)
\* C35: when an attempt for a file fails with a permanent error (the IO
\* variant), download returns that error at once: the step changes no file
\* other than the failing one, and no entry after it in the manifest has
\* been requested or has anything on disk.
C35_PermanentFailureReturnsAtOnce ==
    [][(last' # last /\ last'.res.type = "IO")
          => /\ pc' = "done" /\ result' = last'.res
             /\ \A u \in Urls \ {last'.url} :
                  disk'[u] = disk[u] /\ unpacked'[u] = unpacked[u]
             /\ \A j \in (last'.idx + 1)..Len(Files) :
                  Files[j].url # 0
                     => /\ Files[j].url \notin requested'
                        /\ ~disk'[Files[j].url].exists
                        /\ ~unpacked'[Files[j].url].exists]_vars

\* The first of two cloud files failed with a disk error while its response
\* was written: download has returned the error and the second file has
\* not been asked for.
C35_Witness ==
    /\ pc = "done"
    /\ result = ErrIO("disk")
    /\ Len(Files) = 2
    /\ Files[2].type = "acacia" /\ Files[2].url # 0
    /\ last.idx = 1 /\ last.sent /\ last.res = result
    /\ requested = {Files[1].url}
    /\ disk[Files[2].url] = NoFile
    /\ retried[2] = NotRetried

(***************************************************************************)
(* Properties of the two groups of the download command.                   *)
(***************************************************************************)
\* C36: in a download command every download of a job id has ended, with
\* success or with an error, before the first download of an obsid starts,
\* and downloads run together only within one of the two groups.
C36_JobIdsBeforeObsids ==
    orch.phase # "idle"
        => /\ (\E i \in Group("obsids") : i \in DOMAIN orch.status /\ orch.status[i] # "pending")
                 => \A j \in Group("jobids") : orch.status[j] \in {"ok", "err"}
           /\ Running \subseteq Group("jobids") \/ Running \subseteq Group("obsids")

\* Two job ids, one downloaded and one failed, and the download of the
\* obsid running.
C36_Witness ==
    /\ orch.phase = "obsids"
    /\ orch.args = <<"jobid", "obsid", "jobid">>
    /\ orch.status = <<"ok", "running", "err">>

(***************************************************************************)
(* Properties of the completion report.                                    *)
(***************************************************************************)
\* C37: whatever time has elapsed, less than one whole second included, a
\* cloud file whose transfer succeeded is followed by the next entry of the
\* manifest: the completion report never aborts the download.
C37_CompletionReportNeverFails ==
    /\ (last.idx \in 1..Len(Files) /\ retried[last.idx].res = Ok) => result # Panic
    /\ (pc = "done" /\ result = Panic) => last.res = Panic

(***************************************************************************)
(* Properties of the status of the submission response.                    *)
(***************************************************************************)
\* C38: the outcome of a submission is determined by the body of the
\* response alone: every response with the same body, whatever its status,
\* has the outcome this one had, and a body with job_id only is a new job
\* with that id whatever the status.
C38_OutcomeByBodyAlone ==
    Answered
        => /\ \A r \in Responses :
                (r.fault = "none" /\ r.body = sub.response.body)
                    => submit_asvo_job(r) = sub.outcome
           /\ (/\ Has(sub.response.body.job_id)
               /\ ~Present(sub.response.body.error)
               /\ ~Present(sub.response.body.error_code))
                 => sub.outcome = OkOf(Some(sub.response.body.job_id.v))

\* A response with status 500 and a body with job_id only: a new job.
C38_Witness ==
    /\ Answered
    /\ sub.response.status = 500
    /\ sub.response.body = [error |-> Absent, error_code |-> Absent, job_id |-> Val(JobId)]
    /\ sub.outcome = OkOf(Some(JobId))
    /\ sub.jobids = <<JobId>>

(***************************************************************************)
(* Properties of the wait of the submit command.                           *)
(***************************************************************************)
\* A body with job_id and neither error nor error_code: a new job.
NewJobBody(body) ==
    Has(body.job_id) /\ ~Present(body.error) /\ ~Present(body.error_code)

\* C39: the wait of a submit command is over exactly the ids of the jobs
\* the batch created: a submission adds an id only when its response is a
\* new job (a duplicate or a rejection adds none), and with no id at all the
\* wait returns success at its first fetch of the job list, without sleeping
\* until a job is Ready.  Each part is stated of the state a step leads to.
C39_WaitCoversNewJobsOnly ==
    /\ [][sub'.phase = "waiting" => wait'.jobids = sub'.jobids]_vars
    /\ [][(wait'.phase # "idle" /\ wait'.jobids = <<>>)
            => /\ wait'.phase # "sleep"
               /\ wait'.fetches <= 1
               /\ wait'.phase = "done" => (wait'.fetches = 1 /\ wait'.result = Ok)]_vars
    /\ [][sub'.sent # sub.sent
            => sub'.jobids =
                 IF sub'.response.fault = "none" /\ NewJobBody(sub'.response.body)
                 THEN Append(sub.jobids, sub'.response.body.job_id.v)
                 ELSE sub.jobids]_vars

====
